---- MODULE Spec2Model ----
(***************************************************************************)
(* A model of the fasttpl template engine: the tag scanner and parser, the *)
(* accessor compiler, the tree-walking renderer with its render-context    *)
(* pool, and the operations of the public API that drive them.             *)
(*                                                                         *)
(* Go strings are modelled as sequences of one-character strings, so that  *)
(* slicing, searching and escaping are computed as the code computes them. *)
(* Go positions are 0-based: Slice(s, a, b) is s[a:b].                     *)
(***************************************************************************)
EXTENDS Integers, Sequences, FiniteSets, TLC

\* ------------------------------------------------------------------------
\* Characters and strings
\* ------------------------------------------------------------------------

LowerChars == <<"a","b","c","d","e","f","g","h","i","j","k","l","m",
                "n","o","p","q","r","s","t","u","v","w","x","y","z">>
UpperChars == <<"A","B","C","D","E","F","G","H","I","J","K","L","M",
                "N","O","P","Q","R","S","T","U","V","W","X","Y","Z">>
DigitChars == <<"0","1","2","3","4","5","6","7","8","9">>

Range(f) == {f[x] : x \in DOMAIN f}

\* s[a:b] of Go, for 0 <= a <= b <= len(s)
Slice(s, a, b) == SubSeq(s, a + 1, b)

\* s[a:] of Go
SliceFrom(s, a) == SubSeq(s, a + 1, Len(s))

HasPrefix(s, pre) == Len(s) >= Len(pre) /\ SubSeq(s, 1, Len(pre)) = pre

\* strings.TrimPrefix
TrimPrefix(s, pre) == IF HasPrefix(s, pre) THEN SliceFrom(s, Len(pre)) ELSE s

\* strings.Index(s, sub): the first 0-based position of sub in s, or -1
Index(s, sub) ==
    LET hits == {k \in 0..(Len(s) - Len(sub)) : Slice(s, k, k + Len(sub)) = sub}
    IN IF hits = {} THEN -1 ELSE CHOOSE k \in hits : \A h \in hits : k <= h

\* the white space fastTrim strips (the vertical tab has no TLA+ literal)
isSpace(c) == c \in {" ", "\t", "\n", "\r", "\f"}

\* 0-based byte access s[k]
At(s, k) == s[k + 1]

isDigit(c) == c \in Range(DigitChars)

isAlphaNum(c) == c \in Range(LowerChars) \cup Range(UpperChars) \cup Range(DigitChars)

\* fastTrim: strip leading and trailing white space
fastTrim(s) ==
    LET nonws == {k \in 1..Len(s) : ~isSpace(s[k])}
    IN IF nonws = {} THEN <<>>
       ELSE LET lo == CHOOSE k \in nonws : \A h \in nonws : k <= h
                hi == CHOOSE k \in nonws : \A h \in nonws : k >= h
            IN SubSeq(s, lo, hi)

\* unquote: drop one pair of matching quotes around s
unquote(s) ==
    IF Len(s) >= 2 /\ s[1] \in {"\"", "'"} /\ s[Len(s)] = s[1]
    THEN SubSeq(s, 2, Len(s) - 1)
    ELSE s

DigitVal(c) == (CHOOSE d \in 1..10 : DigitChars[d] = c) - 1

\* strconv.Atoi on a run of decimal digits
RECURSIVE Atoi(_)
Atoi(s) == IF s = <<>> THEN 0
           ELSE 10 * Atoi(SubSeq(s, 1, Len(s) - 1)) + DigitVal(s[Len(s)])

\* strconv.Itoa
RECURSIVE Itoa(_)
Itoa(n) == IF n < 0 THEN <<"-">> \o Itoa(-n)
           ELSE IF n < 10 THEN <<DigitChars[n + 1]>>
           ELSE Itoa(n \div 10) \o <<DigitChars[(n % 10) + 1]>>

\* strings.Split(s, sep) for a one-character separator
RECURSIVE Split(_, _)
Split(s, sep) ==
    LET k == Index(s, <<sep>>)
    IN IF k = -1 THEN <<s>>
       ELSE <<Slice(s, 0, k)>> \o Split(SliceFrom(s, k + 1), sep)

\* splitArgs: the filter arguments after the first colon
splitArgs(s) ==
    LET parts == Split(s, ":")
    IN [k \in 1..Len(parts) |-> fastTrim(unquote(parts[k]))]

\* splitFieldsFast: split on blank, tab and newline outside quotes
RECURSIVE splitFieldsScan(_, _, _, _, _)
splitFieldsScan(s, i, start, inQuote, fields) ==
    IF i > Len(s) THEN fields
    ELSE IF i = Len(s) \/ (inQuote = "" /\ At(s, i) \in {" ", "\t", "\n"})
    THEN LET field == IF i > start THEN fastTrim(Slice(s, start, i)) ELSE <<>>
             fields2 == IF field # <<>> THEN Append(fields, field) ELSE fields
         IN splitFieldsScan(s, i + 1, i + 1, inQuote, fields2)
    ELSE LET c == At(s, i)
             q2 == IF inQuote = "" /\ c \in {"\"", "'"} THEN c
                   ELSE IF inQuote # "" /\ c = inQuote THEN ""
                   ELSE inQuote
         IN splitFieldsScan(s, i + 1, start, q2, fields)

splitFieldsFast(s) == splitFieldsScan(s, 0, 0, "", <<>>)

\* ------------------------------------------------------------------------
\* Accessor compiler
\* ------------------------------------------------------------------------

localStep(name) == [s |-> "local", name |-> name]
\* a fieldStep as compilePath builds it: no struct type and no field index
\* cached
noType == [kind |-> "none"]
fieldStep(name) ==
    [s |-> "field", name |-> name, structType |-> noType, fieldIndex |-> <<>>]
indexStep(idx)  == [s |-> "index", idx |-> idx]
keyStep(key)    == [s |-> "key", key |-> key]

\* the first position k >= from with s[k] = q, or len(s)
RECURSIVE scanToQuote(_, _, _)
scanToQuote(s, k, q) ==
    IF k < Len(s) /\ At(s, k) # q THEN scanToQuote(s, k + 1, q) ELSE k

\* the first position k >= from with s[k] not a digit, or len(s)
RECURSIVE scanDigits(_, _)
scanDigits(s, k) ==
    IF k < Len(s) /\ isDigit(At(s, k)) THEN scanDigits(s, k + 1) ELSE k

\* the first position i with s[i] neither alphanumeric nor '_', or len(s)
RECURSIVE scanIdent(_, _)
scanIdent(s, i) ==
    IF i < Len(s) /\ (isAlphaNum(At(s, i)) \/ At(s, i) = "_")
    THEN scanIdent(s, i + 1) ELSE i

\* the loop of scanDotted after the identifier: brackets, then dot or stop
RECURSIVE scanDottedLoop(_, _, _)
scanDottedLoop(s, j, idxSteps) ==
    IF j >= Len(s) THEN [rest |-> <<>>, idxSteps |-> idxSteps]
    ELSE IF At(s, j) = "["
    THEN LET k == j + 1
         IN IF k < Len(s) /\ At(s, k) \in {"\"", "'"}
            THEN LET start == k + 1
                     k2 == scanToQuote(s, start, At(s, k))
                     k3 == k2 + 1
                     k4 == IF k3 < Len(s) /\ At(s, k3) = "]" THEN k3 + 1 ELSE k3
                 IN scanDottedLoop(s, k4,
                        Append(idxSteps, keyStep(Slice(s, start, k2))))
            ELSE LET k2 == scanDigits(s, k)
                     st2 == IF k2 > k
                            THEN Append(idxSteps, indexStep(Atoi(Slice(s, k, k2))))
                            ELSE idxSteps
                     k3 == IF k2 < Len(s) /\ At(s, k2) = "]" THEN k2 + 1 ELSE k2
                 IN scanDottedLoop(s, k3, st2)
    ELSE IF At(s, j) = "."
    THEN [rest |-> fastTrim(SliceFrom(s, j + 1)), idxSteps |-> idxSteps]
    ELSE [rest |-> fastTrim(SliceFrom(s, j)), idxSteps |-> idxSteps]

scanDotted(s0) ==
    LET s == fastTrim(s0)
        i == scanIdent(s, 0)
    IN [ident |-> Slice(s, 0, i)] @@ scanDottedLoop(s, i, <<>>)

\* the `for rest != ""` loop of compilePath.  scanDotted returns a suffix of
\* its input, so the loop fails to end exactly when it returns its input
\* unchanged: hang records that.
RECURSIVE compilePathLoop(_, _)
RECURSIVE compilePathNext(_, _, _, _)

compilePathLoop(rest, steps) ==
    IF rest = <<>> THEN [acc |-> steps, hang |-> FALSE]
    ELSE compilePathNext(rest, steps, FALSE, scanDotted(rest))

\* one scanDotted result r of the input rest taken up: its identifier
\* becomes a local or a field step, its bracket steps follow, and the loop
\* goes on with r.rest.  A scan that returns its input unchanged does so
\* again on every later iteration, the first scan of compilePath included.
compilePathNext(rest, steps, isLocal, r) ==
    IF r.rest = rest THEN [acc |-> <<>>, hang |-> TRUE]
    ELSE compilePathLoop(r.rest,
             (steps \o <<IF isLocal THEN localStep(r.ident)
                         ELSE fieldStep(r.ident)>>) \o r.idxSteps)

compilePath(path0) ==
    LET path == fastTrim(path0)
    IN IF path = <<>> THEN [acc |-> <<>>, hang |-> FALSE]
       ELSE IF HasPrefix(path, <<"$">>)
       THEN compilePathNext(TrimPrefix(path, <<"$">>), <<>>, TRUE,
                            scanDotted(TrimPrefix(path, <<"$">>)))
       ELSE compilePathNext(path, <<>>, FALSE, scanDotted(path))

\* one pipe segment `name` or `name:arg1:arg2`
parsePipe(pipeStr) ==
    LET colonIdx == Index(pipeStr, <<":">>)
    IN IF colonIdx = -1 THEN [name |-> pipeStr, args |-> <<>>]
       ELSE LET argsStr == fastTrim(SliceFrom(pipeStr, colonIdx + 1))
            IN [name |-> fastTrim(Slice(pipeStr, 0, colonIdx)),
                args |-> IF argsStr # <<>> THEN splitArgs(argsStr) ELSE <<>>]

\* the loop of compileAccessor over the pipe tail
RECURSIVE parsePipes(_, _)
parsePipes(pipesStr0, pipes) ==
    LET pipesStr == fastTrim(pipesStr0)
    IN IF pipesStr = <<>> THEN pipes
       ELSE LET nextPipe == Index(pipesStr, <<"|">>)
                pipeStr == IF nextPipe = -1 THEN pipesStr
                           ELSE fastTrim(Slice(pipesStr, 0, nextPipe))
                tail == IF nextPipe = -1 THEN <<>>
                        ELSE SliceFrom(pipesStr, nextPipe + 1)
            IN parsePipes(tail, IF pipeStr = <<>> THEN pipes
                                ELSE Append(pipes, parsePipe(pipeStr)))

\* compileAccessor: a path and its pipe tail; it has no error outcome
compileAccessor(expr0) ==
    LET expr == fastTrim(expr0)
        pipeIdx == Index(expr, <<"|">>)
    IN IF expr = <<>> THEN [acc |-> <<>>, pipes |-> <<>>, hang |-> FALSE]
       ELSE IF pipeIdx = -1
       THEN compilePath(expr) @@ [pipes |-> <<>>]
       ELSE compilePath(fastTrim(Slice(expr, 0, pipeIdx)))
                @@ [pipes |-> parsePipes(SliceFrom(expr, pipeIdx + 1), <<>>)]

\* ------------------------------------------------------------------------
\* Syntax tree
\* ------------------------------------------------------------------------

textNode(text) == [t |-> "text", text |-> text]
printNode(acc, raw, pipes) == [t |-> "print", acc |-> acc, raw |-> raw, pipes |-> pipes]
ifNode(cond, then, els) == [t |-> "if", cond |-> cond, then |-> then, els |-> els]
rangeNode(iter, item, body) == [t |-> "range", iter |-> iter, item |-> item, body |-> body]
letNode(name, acc) == [t |-> "let", name |-> name, acc |-> acc]
withNode(acc, body) == [t |-> "with", acc |-> acc, body |-> body]
includeNode(name) == [t |-> "include", name |-> name]
seqNode(nodes) == [t |-> "seq", nodes |-> nodes]

\* the nil value of the node interface
nilNode == [t |-> "nil"]

\* sequence: a single node stands for itself, anything else is a seqNode
sequence(nodes) == IF Len(nodes) = 1 THEN nodes[1] ELSE seqNode(nodes)

\* ------------------------------------------------------------------------
\* Parser.  p is the parser's fixed part (src and the delimiters); the
\* position p.i is threaded through as i.  err = "" is Go's nil error and
\* err = "hang" marks a compilePath loop that never returns.
\* ------------------------------------------------------------------------

ErrUnterminatedTag   == "unterminated tag"
ErrUnterminatedBlock == "unterminated block"
ErrUnterminatedIf    == "unterminated if"
ErrRangeSyntax       == "range syntax: range item in path"
ErrLetSyntax         == "let syntax: let name = path"
ErrIncludeSyntax     == "include syntax: include name"
Hang                 == "hang"

chars_raw     == <<"r","a","w">>
chars_if      == <<"i","f">>
chars_range   == <<"r","a","n","g","e">>
chars_let     == <<"l","e","t">>
chars_with    == <<"w","i","t","h">>
chars_include == <<"i","n","c","l","u","d","e">>
chars_end     == <<"e","n","d">>
chars_else    == <<"e","l","s","e">>
chars_in      == <<" ","i","n"," ">>

\* eof with the bound one byte short
eof_offByOne(p, i) == i >= Len(p.src) - 1

eof(p, i) == i >= Len(p.src)

\* the scanning prefix shared by parse, parseUntilEnd and
\* parseUntilElseOrEnd: find the next tag; text is what the loop appends
\* for the text before it (a textNode if there is any, nothing otherwise)
nextTag(p, i) ==
    LET start == Index(SliceFrom(p.src, i), p.leftDelim)
        i2 == i + start + Len(p.leftDelim)
        end == Index(SliceFrom(p.src, i2), p.rightDelim)
    IN [start |-> start,
        text |-> IF start > 0 THEN <<textNode(Slice(p.src, i, i + start))>> ELSE <<>>,
        end |-> IF start = -1 THEN -1 ELSE end,
        tag |-> IF start = -1 \/ end = -1 THEN <<>>
                ELSE fastTrim(Slice(p.src, i2, i2 + end)),
        i |-> IF start = -1 \/ end = -1 THEN i
              ELSE i2 + end + Len(p.rightDelim)]

accErr(a) == IF a.hang THEN Hang ELSE ""

\* the print cases of parseTag (`raw path` and the default), given the
\* compiled accessor a
printTag(a, raw, i) ==
    [n |-> printNode(a.acc, raw, a.pipes), i |-> i, err |-> accErr(a)]

\* case "if" of parseTag, given the compiled condition a and the parsed
\* branches b
ifTag(a, i, b) ==
    IF a.hang THEN [n |-> nilNode, i |-> i, err |-> Hang]
    ELSE IF b.err # "" THEN [n |-> nilNode, i |-> b.i, err |-> b.err]
    ELSE [n |-> ifNode(a.acc, sequence(b.thenNodes), sequence(b.elseNodes)),
          i |-> b.i, err |-> ""]

\* case "range" of parseTag, given the split tag, the compiled iterable a
\* and the parsed body b
rangeTag(rest, inIdx, a, i, b) ==
    IF inIdx = -1 THEN [n |-> nilNode, i |-> i, err |-> ErrRangeSyntax]
    ELSE IF a.hang THEN [n |-> nilNode, i |-> i, err |-> Hang]
    ELSE IF b.err # "" THEN [n |-> nilNode, i |-> b.i, err |-> b.err]
    ELSE [n |-> rangeNode(a.acc, fastTrim(Slice(rest, 0, inIdx)), sequence(b.nodes)),
          i |-> b.i, err |-> ""]

\* case "let" of parseTag, given the split tag and the compiled accessor a
letTag(rest, eq, a, i) ==
    IF eq < 0 THEN [n |-> nilNode, i |-> i, err |-> ErrLetSyntax]
    ELSE IF a.hang THEN [n |-> nilNode, i |-> i, err |-> Hang]
    ELSE [n |-> letNode(fastTrim(Slice(rest, 0, eq)), a.acc), i |-> i, err |-> ""]

\* case "with" of parseTag, given the compiled accessor a and the parsed
\* body b
withTag(a, i, b) ==
    IF a.hang THEN [n |-> nilNode, i |-> i, err |-> Hang]
    ELSE IF b.err # "" THEN [n |-> nilNode, i |-> b.i, err |-> b.err]
    ELSE [n |-> withNode(a.acc, sequence(b.nodes)), i |-> b.i, err |-> ""]

\* case "else" of parseUntilElseOrEnd: what parseUntilEnd returned for the
\* else branch is returned beside the then branch
elseBranch(e) == [elseNodes |-> e.nodes, i |-> e.i, err |-> e.err]

RECURSIVE parseTag(_, _, _)
RECURSIVE parseUntilEnd(_, _, _)
RECURSIVE parseUntilEndNode(_, _, _)
RECURSIVE parseUntilElseOrEnd(_, _, _)
RECURSIVE parseUntilElseOrEndNode(_, _, _)

parseTag(p, i, tag) ==
    LET fields == splitFieldsFast(tag)
    IN IF Len(fields) = 0 THEN [n |-> nilNode, i |-> i, err |-> ""]
       ELSE IF fields[1] = chars_raw
       THEN printTag(compileAccessor(fastTrim(TrimPrefix(tag, chars_raw))), TRUE, i)
       ELSE IF fields[1] = chars_if
       THEN ifTag(compileAccessor(fastTrim(TrimPrefix(tag, chars_if))), i,
                  parseUntilElseOrEnd(p, i, <<>>))
       ELSE IF fields[1] = chars_range
       THEN LET rest == fastTrim(TrimPrefix(tag, chars_range))
                inIdx == Index(rest, chars_in)
            IN rangeTag(rest, inIdx, compileAccessor(fastTrim(SliceFrom(rest, inIdx + 4))),
                        i, parseUntilEnd(p, i, <<>>))
       ELSE IF fields[1] = chars_let
       THEN LET rest == fastTrim(TrimPrefix(tag, chars_let))
                eq == Index(rest, <<"=">>)
            IN letTag(rest, eq, compileAccessor(fastTrim(SliceFrom(rest, eq + 1))), i)
       ELSE IF fields[1] = chars_with
       THEN withTag(compileAccessor(fastTrim(TrimPrefix(tag, chars_with))), i,
                    parseUntilEnd(p, i, <<>>))
       ELSE IF fields[1] = chars_include
       THEN IF Len(fields) < 2 THEN [n |-> nilNode, i |-> i, err |-> ErrIncludeSyntax]
            ELSE [n |-> includeNode(unquote(fields[2])), i |-> i, err |-> ""]
       ELSE printTag(compileAccessor(tag), FALSE, i)

parseUntilEnd(p, i, nodes) ==
    IF eof(p, i) THEN [nodes |-> <<>>, i |-> i, err |-> ErrUnterminatedBlock]
    ELSE LET g == nextTag(p, i)
         IN IF g.start = -1 THEN [nodes |-> <<>>, i |-> i, err |-> ErrUnterminatedBlock]
            ELSE IF g.end = -1 THEN [nodes |-> <<>>, i |-> i, err |-> ErrUnterminatedTag]
            ELSE IF g.tag = chars_end
            THEN [nodes |-> nodes \o g.text, i |-> g.i, err |-> ""]
            ELSE parseUntilEndNode(p, nodes \o g.text, parseTag(p, g.i, g.tag))

\* a body that the end of a nested block closes too
parseUntilEndNode_closeOuter(p, nodes, r) ==
    IF r.err # "" THEN [nodes |-> <<>>, i |-> r.i, err |-> r.err]
    ELSE IF r.n.t \in {"if", "range", "with"}
    THEN [nodes |-> Append(nodes, r.n), i |-> r.i, err |-> ""]
    ELSE parseUntilEnd(p, r.i, Append(nodes, r.n))

\* parseUntilEnd after parseTag returned r: the error goes up, the node
\* (nil included) is appended
parseUntilEndNode(p, nodes, r) ==
    IF r.err # "" THEN [nodes |-> <<>>, i |-> r.i, err |-> r.err]
    ELSE parseUntilEnd(p, r.i, Append(nodes, r.n))

parseUntilElseOrEnd(p, i, thenNodes) ==
    IF eof(p, i)
    THEN [thenNodes |-> <<>>, elseNodes |-> <<>>, i |-> i, err |-> ErrUnterminatedIf]
    ELSE LET g == nextTag(p, i)
         IN IF g.start = -1
            THEN [thenNodes |-> <<>>, elseNodes |-> <<>>, i |-> i, err |-> ErrUnterminatedIf]
            ELSE IF g.end = -1
            THEN [thenNodes |-> <<>>, elseNodes |-> <<>>, i |-> i, err |-> ErrUnterminatedTag]
            ELSE IF g.tag = chars_end
            THEN [thenNodes |-> thenNodes \o g.text, elseNodes |-> <<>>,
                  i |-> g.i, err |-> ""]
            ELSE IF g.tag = chars_else
            THEN [thenNodes |-> thenNodes \o g.text]
                     @@ elseBranch(parseUntilEnd(p, g.i, <<>>))
            ELSE parseUntilElseOrEndNode(p, thenNodes \o g.text, parseTag(p, g.i, g.tag))

\* parseUntilElseOrEnd after parseTag returned r
parseUntilElseOrEndNode(p, thenNodes, r) ==
    IF r.err # ""
    THEN [thenNodes |-> <<>>, elseNodes |-> <<>>, i |-> r.i, err |-> r.err]
    ELSE parseUntilElseOrEnd(p, r.i, Append(thenNodes, r.n))

\* parser.parse: the top-level loop; an empty tag (nil node) is skipped here
RECURSIVE parse(_, _, _)
RECURSIVE parseNode(_, _, _)
parse(p, i, nodes) ==
    IF eof(p, i) THEN [nodes |-> nodes, i |-> i, err |-> ""]
    ELSE LET g == nextTag(p, i)
         IN IF g.start = -1
            THEN [nodes |-> Append(nodes, textNode(SliceFrom(p.src, i))),
                  i |-> Len(p.src), err |-> ""]
            ELSE IF g.end = -1 THEN [nodes |-> <<>>, i |-> i, err |-> ErrUnterminatedTag]
            ELSE parseNode(p, nodes \o g.text, parseTag(p, g.i, g.tag))

\* parse after parseTag returned r: the error goes up, a nil node is dropped
parseNode(p, nodes, r) ==
    IF r.err # "" THEN [nodes |-> <<>>, i |-> r.i, err |-> r.err]
    ELSE parse(p, r.i, IF r.n # nilNode THEN Append(nodes, r.n) ELSE nodes)

\* ------------------------------------------------------------------------
\* Value model: the dynamic values a template is rendered against.
\* nilV is Go's nil interface; a seq is a []any and a map a map[string]any,
\* each either nil or not (reflect tells them apart).
\* ------------------------------------------------------------------------

nilV == [k |-> "nil"]
boolV(b) == [k |-> "bool", b |-> b]
strV(s) == [k |-> "str", s |-> s]
intV(n) == [k |-> "int", n |-> n]
seqV(e) == [k |-> "seq", isnil |-> FALSE, e |-> e]
mapV(m) == [k |-> "map", isnil |-> FALSE, m |-> m]
nilSeqV == [k |-> "seq", isnil |-> TRUE, e |-> <<>>]
nilMapV == [k |-> "map", isnil |-> TRUE, m |-> <<>>]

\* the result of a resolution step: a value and the ok flag
found(v) == [v |-> v, ok |-> TRUE]
absent == [v |-> nilV, ok |-> FALSE]

\* fieldStep.next on the kinds modelled (nil, scalars, []any, map[string]any)
fieldStepNext(st, in) ==
    IF in.k = "map" /\ st.name \in DOMAIN in.m THEN found(in.m[st.name]) ELSE absent

\* an index that wraps around instead of failing out of range
indexStepNext_wrap(st, in) ==
    IF in.k = "seq" /\ Len(in.e) > 0
    THEN found(in.e[(st.idx % Len(in.e)) + 1]) ELSE absent

\* indexStep.next
indexStepNext(st, in) ==
    IF in.k = "seq" /\ st.idx >= 0 /\ st.idx < Len(in.e)
    THEN found(in.e[st.idx + 1]) ELSE absent

\* keyStep.next
keyStepNext(st, in) ==
    IF in.k = "map" /\ st.key \in DOMAIN in.m THEN found(in.m[st.key]) ELSE absent

stepNext(st, in) ==
    CASE st.s = "local" -> found(in)
      [] st.s = "field" -> fieldStepNext(st, in)
      [] st.s = "index" -> indexStepNext(st, in)
      [] st.s = "key"   -> keyStepNext(st, in)

\* the step loops of boundAcc.get
RECURSIVE walkSteps(_, _, _)
walkSteps(steps, k, cur) ==
    IF k > Len(steps) THEN found(cur)
    ELSE LET r == stepNext(steps[k], cur)
         IN IF ~r.ok THEN absent ELSE walkSteps(steps, k + 1, r.v)

\* boundAcc.get: resolve against the data scope or, for a leading
\* localStep, against the local bindings
accGet(steps, ctx) ==
    IF Len(steps) = 0 THEN found(ctx.data)
    ELSE IF steps[1].s = "local"
    THEN IF steps[1].name \notin DOMAIN ctx.locals THEN absent
         ELSE walkSteps(steps, 2, ctx.locals[steps[1].name])
    ELSE walkSteps(steps, 1, ctx.data)

\* truthyFast; a []any or map[string]any reaches reflect's IsZero, which is
\* true of the nil slice / nil map only
truthyFast(v) ==
    CASE v.k = "nil"  -> FALSE
      [] v.k = "bool" -> v.b
      [] v.k = "str"  -> v.s # <<>>
      [] v.k = "int"  -> v.n # 0
      [] v.k = "seq"  -> ~v.isnil
      [] v.k = "map"  -> ~v.isnil

\* byte order of the characters, for fmt's sorted map keys
AsciiOrder == <<"\t", "\n", "\f", "\r", " ", "!", "\"", "$", "&", "'", "+", ",",
                "-", ".", "/">> \o DigitChars \o <<":", ";", "<", "=", ">">>
              \o UpperChars \o <<"[", "]", "_">> \o LowerChars \o <<"{", "|", "}">>

Code(c) == CHOOSE i \in 1..Len(AsciiOrder) : AsciiOrder[i] = c

RECURSIVE strLess(_, _)
strLess(a, b) ==
    IF b = <<>> THEN FALSE
    ELSE IF a = <<>> THEN TRUE
    ELSE IF a[1] = b[1] THEN strLess(Tail(a), Tail(b))
    ELSE Code(a[1]) < Code(b[1])

\* the keys of a finite set of strings in increasing byte order
RECURSIVE sortedKeys(_)
sortedKeys(S) ==
    IF S = {} THEN <<>>
    ELSE LET m == CHOOSE x \in S : \A y \in S \ {x} : strLess(x, y)
         IN <<m>> \o sortedKeys(S \ {m})

\* toStringFast; the default case is fmt's %v
RECURSIVE toStringFast(_)
RECURSIVE joinValues(_, _)
RECURSIVE joinEntries(_, _, _)
toStringFast(v) ==
    CASE v.k = "str"  -> v.s
      [] v.k = "int"  -> Itoa(v.n)
      [] v.k = "bool" -> IF v.b THEN <<"t","r","u","e">> ELSE <<"f","a","l","s","e">>
      [] v.k = "nil"  -> <<"<","n","i","l",">">>
      [] v.k = "seq"  -> <<"[">> \o joinValues(v.e, 1) \o <<"]">>
      [] v.k = "map"  -> <<"m","a","p","[">>
                         \o joinEntries(v.m, sortedKeys(DOMAIN v.m), 1) \o <<"]">>

joinValues(e, k) ==
    IF k > Len(e) THEN <<>>
    ELSE (IF k > 1 THEN <<" ">> ELSE <<>>) \o toStringFast(e[k]) \o joinValues(e, k + 1)

joinEntries(m, keys, k) ==
    IF k > Len(keys) THEN <<>>
    ELSE (IF k > 1 THEN <<" ">> ELSE <<>>) \o keys[k] \o <<":">>
         \o toStringFast(m[keys[k]]) \o joinEntries(m, keys, k + 1)

\* an escape that lets '>' through
escapeChar_keepGt(c) ==
    CASE c = "&"  -> <<"&","a","m","p",";">>
      [] c = "<"  -> <<"&","l","t",";">>
      [] c = "\"" -> <<"&","q","u","o","t",";">>
      [] c = "'"  -> <<"&","#","3","9",";">>
      [] OTHER    -> <<c>>

\* the entity htmlEscapeFast writes for one byte
escapeChar(c) ==
    CASE c = "&"  -> <<"&","a","m","p",";">>
      [] c = "<"  -> <<"&","l","t",";">>
      [] c = ">"  -> <<"&","g","t",";">>
      [] c = "\"" -> <<"&","q","u","o","t",";">>
      [] c = "'"  -> <<"&","#","3","9",";">>
      [] OTHER    -> <<c>>

RECURSIVE escapeAll(_)
escapeAll(s) == IF s = <<>> THEN <<>> ELSE escapeChar(s[1]) \o escapeAll(Tail(s))

\* htmlEscapeFast: s itself when no byte needs escaping
htmlEscapeFast(s) ==
    IF \A k \in 1..Len(s) : s[k] \notin {"&", "<", ">", "\"", "'"} THEN s
    ELSE escapeAll(s)

\* ------------------------------------------------------------------------
\* Filters.  A registry maps a filter name to the function registered
\* under it; the functions are the six of DefaultFilters plus a custom
\* filter that returns an error.
\* ------------------------------------------------------------------------

name_upper    == <<"u","p","p","e","r">>
name_lower    == <<"l","o","w","e","r">>
name_trim     == <<"t","r","i","m">>
name_truncate == <<"t","r","u","n","c","a","t","e">>
name_replace  == <<"r","e","p","l","a","c","e">>
name_length   == <<"l","e","n","g","t","h">>

DefaultFilters ==
    [f \in {name_upper, name_lower, name_trim, name_truncate, name_replace,
            name_length} |->
        CASE f = name_upper -> "upper" [] f = name_lower -> "lower"
          [] f = name_trim -> "trim" [] f = name_truncate -> "truncate"
          [] f = name_replace -> "replace" [] f = name_length -> "length"]

upperChar(c) ==
    IF c \in Range(LowerChars)
    THEN UpperChars[CHOOSE i \in 1..26 : LowerChars[i] = c] ELSE c

lowerChar(c) ==
    IF c \in Range(UpperChars)
    THEN LowerChars[CHOOSE i \in 1..26 : UpperChars[i] = c] ELSE c

\* strings.ReplaceAll
RECURSIVE ReplaceAll(_, _, _)
ReplaceAll(s, old, new) ==
    IF old = <<>>
    THEN IF s = <<>> THEN new ELSE new \o <<s[1]>> \o ReplaceAll(Tail(s), old, new)
    ELSE IF Len(s) < Len(old) THEN s
    ELSE IF HasPrefix(s, old) THEN new \o ReplaceAll(SliceFrom(s, Len(old)), old, new)
    ELSE <<s[1]>> \o ReplaceAll(Tail(s), old, new)

\* strconv.Atoi succeeds: an optional sign and at least one digit
atoiOk(s) ==
    LET d == IF s # <<>> /\ s[1] \in {"+", "-"} THEN Tail(s) ELSE s
    IN d # <<>> /\ \A k \in 1..Len(d) : isDigit(d[k])

atoiVal(s) ==
    IF s[1] = "-" THEN 0 - Atoi(Tail(s))
    ELSE IF s[1] = "+" THEN Atoi(Tail(s)) ELSE Atoi(s)

ErrFilterFailed == "filter failed"

\* the registered functions: [s |-> result, err |-> error kind or ""]
filterFunc(impl, in, args) ==
    CASE impl = "upper" -> [s |-> [k \in 1..Len(in) |-> upperChar(in[k])], err |-> ""]
      [] impl = "lower" -> [s |-> [k \in 1..Len(in) |-> lowerChar(in[k])], err |-> ""]
      [] impl = "trim"  -> [s |-> fastTrim(in), err |-> ""]
      [] impl = "truncate" ->
            [s |-> IF Len(args) = 0 THEN in
                   ELSE IF ~atoiOk(args[1]) THEN in
                   ELSE IF atoiVal(args[1]) < 0 THEN in
                   ELSE IF Len(in) <= atoiVal(args[1]) THEN in
                   ELSE Slice(in, 0, atoiVal(args[1])),
             err |-> ""]
      [] impl = "replace" ->
            [s |-> IF Len(args) < 2 THEN in ELSE ReplaceAll(in, args[1], args[2]),
             err |-> ""]
      [] impl = "length" -> [s |-> Itoa(Len(in)), err |-> ""]
      [] impl = "fail" -> [s |-> <<>>, err |-> ErrFilterFailed]

\* ------------------------------------------------------------------------
\* Renderer.  A render state c is the render context's mutable part
\* (data, locals), the bytes written to the sink so far (out) and the
\* error being returned (err, <<>> for nil).  env is what reset binds for
\* the whole call: the partial map and filter registry of the rendered
\* template, and the heap of templates the partial map points into.
\* Ranging over a map visits its entries in an order Go leaves
\* unspecified, so rendering a node yields a SET of possible states.
\* ------------------------------------------------------------------------

NoErr == <<>>
ErrUnknownFilter(name) == <<"unknown filter", name>>
ErrPartialNotFound(name) == <<"include: partial not found", name>>
ErrFilter(name) == <<ErrFilterFailed, name>>
PanicNilNode == <<"panic: nil pointer dereference", <<>>>>
StackOverflow == <<"fatal: stack overflow", <<>>>>

isPanic(err) == err \in {PanicNilNode, StackOverflow}

\* the deepest chain of nested includes followed before the Go stack is
\* taken to be exhausted
MaxIncludeDepth == 3

\* pipe.apply letting the input pass when the filter is not registered
pipeApply_passUnknown(pp, env, in) ==
    IF pp.name \notin DOMAIN env.filters THEN [s |-> in, err |-> NoErr]
    ELSE [s |-> filterFunc(env.filters[pp.name], in, pp.args).s, err |-> NoErr]

\* pipe.apply
pipeApply(pp, env, in) ==
    IF pp.name \notin DOMAIN env.filters
    THEN [s |-> <<>>, err |-> ErrUnknownFilter(pp.name)]
    ELSE LET r == filterFunc(env.filters[pp.name], in, pp.args)
         IN [s |-> r.s, err |-> IF r.err = "" THEN NoErr ELSE ErrFilter(pp.name)]

\* the pipe loop of printNode.render
RECURSIVE applyPipes(_, _, _, _)
applyPipes(pipes, k, env, in) ==
    IF k > Len(pipes) THEN [s |-> in, err |-> NoErr]
    ELSE LET r == pipeApply(pipes[k], env, in)
         IN IF r.err # NoErr THEN r ELSE applyPipes(pipes, k + 1, env, r.s)

\* the binding of name in locals: [v, ok]
lookupLocal(locals, name) ==
    IF name \in DOMAIN locals THEN found(locals[name]) ELSE absent

\* locals[name] = v
bindLocal(locals, name, v) ==
    [x \in DOMAIN locals \cup {name} |-> IF x = name THEN v ELSE locals[x]]

\* delete(locals, name)
deleteLocal(locals, name) == [x \in DOMAIN locals \ {name} |-> locals[x]]

\* a restore that forgets the previous value
restoreLocal_delete(locals, name, orig) == deleteLocal(locals, name)

\* the "Restore original value" block of rangeNode.render
restoreLocal(locals, name, orig) ==

    IF orig.ok THEN bindLocal(locals, name, orig.v) ELSE deleteLocal(locals, name)

\* all orders in which the keys of a map can be visited
RECURSIVE Perms(_)
Perms(S) ==
    IF S = {} THEN {<<>>}
    ELSE UNION {{<<x>> \o q : q \in Perms(S \ {x})} : x \in S}

\* a sequence iterated from its last element to its first
rangeItems_backwards(v) ==
    CASE v.k = "seq" -> {[i \in 1..Len(v.e) |-> v.e[Len(v.e) + 1 - i]]}
      [] v.k = "map" -> {[i \in 1..Len(q) |-> v.m[q[i]]] : q \in Perms(DOMAIN v.m)}
      [] OTHER -> {<<>>}

\* the sequences of elements a rangeNode can iterate over
rangeItems(v) ==

    CASE v.k = "seq" -> {v.e}
      [] v.k = "map" -> {[i \in 1..Len(q) |-> v.m[q[i]]] : q \in Perms(DOMAIN v.m)}
      [] OTHER -> {<<>>}

RECURSIVE render(_, _, _, _)
RECURSIVE renderSeq(_, _, _, _, _)
RECURSIVE renderRange(_, _, _, _, _, _, _)

printNodeRender(n, c, env) ==
    LET r == accGet(n.acc, c)
        q == applyPipes(n.pipes, 1, env, toStringFast(r.v))
    IN IF ~r.ok THEN c
       ELSE IF q.err # NoErr THEN [c EXCEPT !.err = q.err]
       ELSE IF n.raw THEN [c EXCEPT !.out = @ \o q.s]
       ELSE [c EXCEPT !.out = @ \o htmlEscapeFast(q.s)]

ifNodeRender(n, c, env, depth) ==
    IF truthyFast(accGet(n.cond, c).v) THEN render(n.then, c, env, depth)
    ELSE IF n.els # nilNode THEN render(n.els, c, env, depth)
    ELSE {c}

letNodeRender(n, c) ==
    [c EXCEPT !.locals = bindLocal(@, n.name, accGet(n.acc, c).v)]

\* a With that leaves the data scope on the resolved value
withNodeRender_noRestore(n, c, env, depth) ==
    LET r == accGet(n.acc, c)
    IN IF ~r.ok THEN {c} ELSE render(n.body, [c EXCEPT !.data = r.v], env, depth)

\* withNode.render: the deferred restore of ctx.data runs on every exit
withNodeRender(n, c, env, depth) ==
    LET r == accGet(n.acc, c)
    IN IF ~r.ok THEN {c}
       ELSE {[c2 EXCEPT !.data = c.data] :
                c2 \in render(n.body, [c EXCEPT !.data = r.v], env, depth)}

\* an include that skips a partial nobody registered
includeNodeRender_skipMissing(n, c, env, depth) ==
    IF n.name \notin DOMAIN env.parts THEN {c}
    ELSE IF depth >= MaxIncludeDepth THEN {[c EXCEPT !.err = StackOverflow]}
    ELSE render(env.heap[env.parts[n.name]].root, c, env, depth + 1)

\* an include that hides the local bindings from the partial
includeNodeRender_noLocals(n, c, env, depth) ==
    IF n.name \notin DOMAIN env.parts
    THEN {[c EXCEPT !.err = ErrPartialNotFound(n.name)]}
    ELSE IF depth >= MaxIncludeDepth THEN {[c EXCEPT !.err = StackOverflow]}
    ELSE render(env.heap[env.parts[n.name]].root, [c EXCEPT !.locals = <<>>], env, depth + 1)

includeNodeRender(n, c, env, depth) ==
    IF n.name \notin DOMAIN env.parts
    THEN {[c EXCEPT !.err = ErrPartialNotFound(n.name)]}
    ELSE IF depth >= MaxIncludeDepth THEN {[c EXCEPT !.err = StackOverflow]}
    ELSE render(env.heap[env.parts[n.name]].root, c, env, depth + 1)

\* the iteration loops of rangeNode.render over items, from position k
renderRange(n, items, k, c, env, depth, orig) ==
    IF k > Len(items)
    THEN {[c EXCEPT !.locals = restoreLocal(@, n.item, orig)]}
    ELSE UNION {
           IF isPanic(c2.err) THEN {c2}
           ELSE IF c2.err # NoErr
           THEN {[c2 EXCEPT !.locals = restoreLocal(@, n.item, orig)]}
           ELSE renderRange(n, items, k + 1, c2, env, depth, orig)
           : c2 \in render(n.body, [c EXCEPT !.locals = bindLocal(@, n.item, items[k])],
                           env, depth)}

rangeNodeRender(n, c, env, depth) ==
    LET v == accGet(n.iter, c).v
        orig == lookupLocal(c.locals, n.item)
    IN UNION {renderRange(n, items, 1, c, env, depth, orig) : items \in rangeItems(v)}

\* a sequence that renders the nodes after a failed child too
RECURSIVE renderSeq_keepGoing(_, _, _, _, _)
renderSeq_keepGoing(nodes, k, c, env, depth) ==
    IF k > Len(nodes) THEN {c}
    ELSE UNION {renderSeq_keepGoing(nodes, k + 1, c2, env, depth)
                : c2 \in render(nodes[k], c, env, depth)}

\* seqNode.render from child k on

renderSeq(nodes, k, c, env, depth) ==
    IF k > Len(nodes) THEN {c}
    ELSE UNION {IF c2.err # NoErr THEN {c2}
                ELSE renderSeq(nodes, k + 1, c2, env, depth)
                : c2 \in render(nodes[k], c, env, depth)}

\* node.render, by node type; calling it on the nil node panics
render(n, c, env, depth) ==
    CASE n.t = "text"    -> {[c EXCEPT !.out = @ \o n.text]}
      [] n.t = "print"   -> {printNodeRender(n, c, env)}
      [] n.t = "if"      -> ifNodeRender(n, c, env, depth)
      [] n.t = "range"   -> rangeNodeRender(n, c, env, depth)
      [] n.t = "let"     -> {letNodeRender(n, c)}
      [] n.t = "with"    -> withNodeRender(n, c, env, depth)
      [] n.t = "include" -> includeNodeRender(n, c, env, depth)
      [] n.t = "seq"     -> renderSeq(n.nodes, 1, c, env, depth)
      [] n.t = "nil"     -> {[c EXCEPT !.err = PanicNilNode]}
\* ------------------------------------------------------------------------
\* Public API: Compile, RegisterPartial, Render and the render-context pool
\* ------------------------------------------------------------------------

\* the nil *Template
nilTemplate == [t |-> "nilTemplate"]

\* the compileOptions Compile starts from
DefaultOptions ==
    [filters |-> DefaultFilters, leftDelim |-> <<"{","{">>, rightDelim |-> <<"}","}">>]

\* Compile: (*Template, error); err = "" is the nil error
\* the tail of Compile, given what p.parse() returned: a parse error is
\* returned with a nil template, otherwise the template is built
newTemplate(r, co) ==
    IF r.err # "" THEN [tmpl |-> nilTemplate, err |-> r.err]
    ELSE [tmpl |-> [root |-> sequence(r.nodes), parts |-> <<>>, filt |-> co.filters],
          err |-> ""]

Compile(src, co) ==
    newTemplate(parse([src |-> src, leftDelim |-> co.leftDelim,
                       rightDelim |-> co.rightDelim], 0, <<>>), co)

\* what renderCtxPool's New returns
newRenderCtx == [data |-> nilV, locals |-> <<>>, parts |-> <<>>, filters |-> <<>>]

\* a reset that leaves the locals of the previous render in place
ctxReset_keepLocals(ctx, data, parts, filters) ==
    [ctx EXCEPT !.data = data, !.parts = parts, !.filters = filters]

\* a reset that leaves the data of the previous render in place
ctxReset_keepData(ctx, data, parts, filters) ==
    [ctx EXCEPT !.locals = <<>>, !.parts = parts, !.filters = filters]

\* renderCtx.reset
ctxReset(ctx, data, parts, filters) ==

    [ctx EXCEPT !.data = data, !.locals = <<>>, !.parts = parts, !.filters = filters]

\* the render state a node sees through ctx and the sink
renderState(ctx, out, err) ==
    [data |-> ctx.data, locals |-> ctx.locals, out |-> out, err |-> err]

\* ------------------------------------------------------------------------
\* PrecomputeFieldAccess.  A reflect.Type is a struct type, given by its
\* name and its fields in order, each a name and a type, or some other type
\* ------------------------------------------------------------------------

otherType == [kind |-> "other"]
structType(name, fields) == [kind |-> "struct", name |-> name, fields |-> fields]
field(name, typ) == [name |-> name, typ |-> typ]

\* reflect.Type.FieldByName: the first field of that name, with its index
FieldByName(typ, name) ==
    IF \E k \in 1..Len(typ.fields) : typ.fields[k].name = name
    THEN LET k == CHOOSE k \in 1..Len(typ.fields) :
                     /\ typ.fields[k].name = name
                     /\ \A j \in 1..(k - 1) : typ.fields[j].name # name
         IN [found |-> TRUE, index |-> <<k - 1>>, typ |-> typ.fields[k].typ]
    ELSE [found |-> FALSE, index |-> <<>>, typ |-> otherType]

\* the loop of precomputeAccessor from step i on: ba.steps[i] is assigned
\* in place, and ba.steps shares its array with the accessor in the tree
RECURSIVE precomputeAccessor(_, _, _)
precomputeAccessor(steps, i, currentType) ==
    IF i > Len(steps) THEN steps
    ELSE IF /\ steps[i].s = "field"
            /\ currentType.kind = "struct"
            /\ FieldByName(currentType, steps[i].name).found
    THEN precomputeAccessor(
             [steps EXCEPT ![i] = [s |-> "field", name |-> steps[i].name,
                                   structType |-> currentType,
                                   fieldIndex |-> FieldByName(currentType, steps[i].name).index]],
             i + 1, FieldByName(currentType, steps[i].name).typ)
    ELSE precomputeAccessor(steps, i + 1, currentType)

\* precomputeNode: the tree after the walk
RECURSIVE precomputeNode(_, _)
precomputeNode(n, dataType) ==
    CASE n.t = "print" -> [n EXCEPT !.acc = precomputeAccessor(@, 1, dataType)]
      [] n.t = "if"    -> [n EXCEPT !.cond = precomputeAccessor(@, 1, dataType),
                                    !.then = precomputeNode(@, dataType),
                                    !.els = IF @ # nilNode THEN precomputeNode(@, dataType)
                                            ELSE @]
      [] n.t = "range" -> [n EXCEPT !.iter = precomputeAccessor(@, 1, dataType),
                                    !.body = precomputeNode(@, dataType)]
      [] n.t = "let"   -> [n EXCEPT !.acc = precomputeAccessor(@, 1, dataType)]
      [] n.t = "with"  -> [n EXCEPT !.acc = precomputeAccessor(@, 1, dataType),
                                    !.body = precomputeNode(@, dataType)]
      [] n.t = "seq"   -> [n EXCEPT !.nodes = [k \in 1..Len(@) |->
                                                  precomputeNode(@[k], dataType)]]
      [] OTHER         -> n

\* ------------------------------------------------------------------------
\* State
\* ------------------------------------------------------------------------

VARIABLES
    heap,        \* the compiled templates, by identity: root, parts, filt
    ctxs,        \* the live render contexts, by identity
    pool,        \* renderCtxPool: the identities of the pooled contexts
    caller,      \* what the caller still has to compile, what it renders
                 \* with, the partials it may register and the types it may
                 \* precompute field access for
    lastCompile, \* the last Compile call: its source and its two results
    last,        \* the last Template.Render call: template, data, sink, error,
                 \* and the context's data scope and locals when it returned
    run,         \* the current run of Render calls with one template and data
    thr,         \* the goroutines inside Template.Render
    fs,          \* the template directory: each file's content and
                 \* modification time
    fc,          \* globalFileCache.templates, by file name
    cc,          \* globalCompileCache.templates, by cache key
    rm,          \* the ReloadManager: watched and callbacks
    eng,         \* the Engine: templates by name, and defaultLayout
    tp,          \* the TemplatePools the caller made
    call,        \* the last call into the file, cache, pool, reload or
                 \* engine layer and what it returned
    gor          \* the goroutines inside the ReloadManager or the Engine

\* the state of the layers built on Compile and Template.Render
libVars == <<fs, fc, cc, rm, eng, tp, call, gor>>

vars == <<heap, ctxs, pool, caller, lastCompile, last, run, thr, libVars>>

\* ------------------------------------------------------------------------
\* Bounds
\* ------------------------------------------------------------------------

\* objects the pool keeps; sync.Pool may drop any object put into it
MaxPool == 1

\* the length up to which a run of identical Render calls is counted
MaxRepeat == 3

\* fragments concatenated into a generated template source
MaxFrags == 3

\* goroutines rendering concurrently
NumThreads == 2

Threads == 1..NumThreads

\* ------------------------------------------------------------------------
\* Pool operations
\* ------------------------------------------------------------------------

\* the identity New gives a context: the least one not live
freshCtxId == CHOOSE i \in 1..(Cardinality(DOMAIN ctxs) + 1) : i \notin DOMAIN ctxs

\* the contexts renderCtxPool.Get may return: a pooled one, or a new one
poolGet == pool \cup {freshCtxId}

\* Get that leaves the object it hands out in the pool
poolAfterGet_keep(id) == pool

\* the pool once Get has handed out id
poolAfterGet(id) == pool \ {id}


\* the pool after Put(id) onto pool p: a full pool drops the object
poolPut(p, id) == IF Cardinality(p) < MaxPool THEN p \cup {id} ELSE p

\* the context behind id when Get returns it
ctxOf(id) == IF id \in DOMAIN ctxs THEN ctxs[id] ELSE newRenderCtx

\* the live contexts: the pooled ones and the ones goroutines hold
held == {thr[i].ctx : i \in {j \in Threads : thr[j].pc \in {"got", "run"}}}

restrict(f, S) == [x \in S \cap DOMAIN f |-> f[x]]

noRun == [tmpl |-> 0, data |-> nilV, n |-> 0, out |-> <<>>, err |-> NoErr]
noRender == [tmpl |-> 0, data |-> nilV, out |-> <<>>, err |-> NoErr,
             scope |-> nilV, locals |-> <<>>]
noCompile == [src |-> <<>>, tmpl |-> nilTemplate, err |-> "", called |-> FALSE]
idleThread == [pc |-> "idle", ctx |-> 0, tmpl |-> 0, data |-> nilV, k |-> 0,
               out |-> <<>>, err |-> NoErr]

\* a Compile call that never returns, or a render that exhausted the stack,
\* ends the program
halted == lastCompile.err = Hang \/ last.err = StackOverflow
         \/ \E i \in Threads : thr[i].err = StackOverflow
         \/ call.err \in {Hang, "panic"}

\* ------------------------------------------------------------------------
\* Actions
\* ------------------------------------------------------------------------

\* Compile(src, opts...) on the caller's next source
CompileCall ==
    /\ ~halted
    /\ caller.srcs # <<>>
    /\ \E r \in {Compile(Head(caller.srcs).src, Head(caller.srcs).opts)} :
          /\ lastCompile' = [src |-> Head(caller.srcs).src, tmpl |-> r.tmpl,
                             err |-> r.err, called |-> TRUE]
          /\ heap' = IF r.err = "" THEN Append(heap, r.tmpl) ELSE heap
    /\ caller' = [caller EXCEPT !.srcs = Tail(@)]
    /\ UNCHANGED <<ctxs, pool, last, run, thr, libVars>>

\* t.RegisterPartial(name, partial); the caller registers partials in a
\* setup phase, before any goroutine renders
RegisterPartial(t, name, partial) ==
    /\ ~halted
    /\ \A i \in Threads : thr[i].pc = "idle"
    /\ heap' = [heap EXCEPT ![t].parts = bindLocal(@, name, partial)]
    /\ heap' # heap
    /\ run' = noRun
    /\ UNCHANGED <<ctxs, pool, caller, lastCompile, last, thr, libVars>>

\* t.PrecomputeFieldAccess(dataType); nothing keeps it from running while
\* goroutines render t
PrecomputeFieldAccess(t, dataType) ==
    /\ ~halted
    /\ heap' = [heap EXCEPT ![t].root = precomputeNode(@, dataType)]
    /\ heap' # heap
    /\ UNCHANGED <<ctxs, pool, caller, lastCompile, last, run, thr, libVars>>

\* t.Render(w, data) run to completion by one goroutine: Get, reset,
\* root.render, and the deferred Put
Render(t, data) ==
    /\ ~halted
    /\ \E id \in poolGet :
         LET ctx == ctxReset(ctxOf(id), data, heap[t].parts, heap[t].filt)
             env == [parts |-> ctx.parts, filters |-> ctx.filters, heap |-> heap]
         IN \E r \in render(heap[t].root, renderState(ctx, <<>>, NoErr), env, 0) :
              LET pool2 == poolPut(poolAfterGet(id), id)
              IN /\ pool' = pool2
                 /\ ctxs' = restrict(
                        [x \in DOMAIN ctxs \cup {id} |->
                            IF x = id
                            THEN [ctx EXCEPT !.data = r.data, !.locals = r.locals]
                            ELSE ctxs[x]], pool2)
                 /\ last' = [tmpl |-> t, data |-> data, out |-> r.out, err |-> r.err,
                             scope |-> r.data, locals |-> r.locals]
                 /\ run' = IF run.tmpl = t /\ run.data = data
                           THEN [run EXCEPT !.n = IF @ < MaxRepeat THEN @ + 1 ELSE @]
                           ELSE [tmpl |-> t, data |-> data, n |-> 1,
                                 out |-> r.out, err |-> r.err]
    /\ UNCHANGED <<heap, caller, lastCompile, thr, libVars>>

name_ghost == <<"g","h","o","s","t">>

PartialNames == {name_ghost}

Next ==
    \/ CompileCall
    \/ \E reg \in caller.regs :
          /\ reg[1] \in DOMAIN heap /\ reg[3] \in DOMAIN heap
          /\ RegisterPartial(reg[1], reg[2], reg[3])
    \/ \E t \in DOMAIN heap, data \in caller.datas : Render(t, data)

\* what NewReloadManager returns: nothing watched, no callback
noReloadManager == [watched |-> <<>>, callbacks |-> <<>>, mu |-> "free"]

\* no Engine made yet
noEngine == [templates |-> <<>>, defaultLayout |-> <<>>, ext |-> <<>>]

\* no TemplatePool made yet
noTemplatePool == [made |-> FALSE, src |-> <<>>, opts |-> <<>>, pooled |-> {}]

\* no call into the layers above Template.Render made yet
noCall == [op |-> "none", name |-> <<>>, layout |-> <<>>, opts |-> <<>>, tmpl |-> 0,
           err |-> "", out |-> <<>>, rerr |-> NoErr, notified |-> <<>>]

\* a program that uses Compile and Template.Render only: no file, the
\* global caches as the package initialises them, nothing watched
InitLib ==
    /\ fs = <<>>
    /\ fc = <<>>
    /\ cc = <<>>
    /\ rm = noReloadManager
    /\ eng = noEngine
    /\ tp = noTemplatePool
    /\ call = noCall
    /\ gor = <<>>

\* the RegisterPartial calls the caller may make, <<template, name, partial>>
\* by order of compilation: the ones its scenario lists, or by default any
\* template under a name of PartialNames on any template
registrations(c) ==
    IF "regs" \in DOMAIN c THEN c.regs
    ELSE {<<t, name, p>> : t \in 1..Len(c.srcs), name \in PartialNames,
                           p \in 1..Len(c.srcs)}

InitState(c) ==
    /\ heap = <<>>
    /\ ctxs = <<>>
    /\ pool = {}
    /\ caller = [srcs |-> c.srcs, datas |-> c.datas, regs |-> registrations(c),
                 types |-> IF "types" \in DOMAIN c THEN c.types ELSE {}]
    /\ lastCompile = noCompile
    /\ last = noRender
    /\ run = noRun
    /\ thr = [i \in Threads |-> idleThread]
    /\ InitLib

\* ------------------------------------------------------------------------
\* Inputs: the sources the caller compiles and the data it renders with
\* ------------------------------------------------------------------------

input(src) == [src |-> src, opts |-> DefaultOptions]

\* A{{ x | nope }}B
src_unknownFilter == <<"A","{","{"," ","x"," ","|"," ","n","o","p","e"," ","}","}","B">>
\* {{ title | trim | upper }}
src_pipes == <<"{","{"," ","t","i","t","l","e"," ","|"," ","t","r","i","m"," ","|"," ","u","p","p","e","r"," ","}","}">>
\* {{ title | trim | length }}
src_pipeOrder == <<"{","{"," ","t","i","t","l","e"," ","|"," ","t","r","i","m"," ","|"," ","l","e","n","g","t","h"," ","}","}">>
\* {{ user.name }}
src_print == <<"{","{"," ","u","s","e","r",".","n","a","m","e"," ","}","}">>
\* {{ raw user.name }}
src_raw == <<"{","{"," ","r","a","w"," ","u","s","e","r",".","n","a","m","e"," ","}","}">>
\* {{ if c }}A{{ else }}B{{ end }}
src_ifElse == <<"{","{"," ","i","f"," ","c"," ","}","}","A","{","{"," ","e","l","s","e"," ","}","}","B","{","{"," ","e","n","d"," ","}","}">>
\* {{ if c }}A{{ end }}
src_if == <<"{","{"," ","i","f"," ","c"," ","}","}","A","{","{"," ","e","n","d"," ","}","}">>
\* {{ range item in items }}{{ $item.name }},{{ end }}
src_range == <<"{","{"," ","r","a","n","g","e"," ","i","t","e","m"," ","i","n"," ","i","t","e","m","s"," ","}","}","{","{"," ","$","i","t","e","m",".","n","a","m","e"," ","}","}",",","{","{"," ","e","n","d"," ","}","}">>
\* X{{ include "ghost" }}Y
src_include == <<"X","{","{"," ","i","n","c","l","u","d","e"," ","\"","g","h","o","s","t","\""," ","}","}","Y">>
\* P{{ x }}
src_partial == <<"P","{","{"," ","x"," ","}","}">>
\* {{ if $n }}S{{ end }}{{ let n = x }}
src_letLast == <<"{","{"," ","i","f"," ","$","n"," ","}","}","S","{","{"," ","e","n","d"," ","}","}","{","{"," ","l","e","t"," ","n"," ","="," ","x"," ","}","}">>
\* {{ range v in m }}{{ $v }}{{ end }}
src_rangeValues == <<"{","{"," ","r","a","n","g","e"," ","v"," ","i","n"," ","m"," ","}","}","{","{"," ","$","v"," ","}","}","{","{"," ","e","n","d"," ","}","}">>
\* {{ range v in m }}{{ $v | nope }}{{ end }}Z
src_rangeAbort == <<"{","{"," ","r","a","n","g","e"," ","v"," ","i","n"," ","m"," ","}","}","{","{"," ","$","v"," ","|"," ","n","o","p","e"," ","}","}","{","{"," ","e","n","d"," ","}","}","Z">>
\* {{ with user }}{{ name | nope }}{{ end }}{{ x }}
src_withAbort == <<"{","{"," ","w","i","t","h"," ","u","s","e","r"," ","}","}","{","{"," ","n","a","m","e"," ","|"," ","n","o","p","e"," ","}","}","{","{"," ","e","n","d"," ","}","}","{","{"," ","x"," ","}","}">>
\* {{ let item = x }}{{ range item in m }}{{ $item }}{{ end }}{{ $item }}
src_rangeShadow == <<"{","{"," ","l","e","t"," ","i","t","e","m"," ","="," ","x"," ","}","}","{","{"," ","r","a","n","g","e"," ","i","t","e","m"," ","i","n"," ","m"," ","}","}","{","{"," ","$","i","t","e","m"," ","}","}","{","{"," ","e","n","d"," ","}","}","{","{"," ","$","i","t","e","m"," ","}","}">>
\* {{ let item = x }}{{ range item in m }}{{ $item | nope }}{{ end }}
src_rangeShadowAbort == <<"{","{"," ","l","e","t"," ","i","t","e","m"," ","="," ","x"," ","}","}","{","{"," ","r","a","n","g","e"," ","i","t","e","m"," ","i","n"," ","m"," ","}","}","{","{"," ","$","i","t","e","m"," ","|"," ","n","o","p","e"," ","}","}","{","{"," ","e","n","d"," ","}","}">>
\* {{ range item in m }}{{ let item = x }}{{ range item in m }}{{ end }}{{ $item }}{{ end }}
src_rangeNested == <<"{","{"," ","r","a","n","g","e"," ","i","t","e","m"," ","i","n"," ","m"," ","}","}","{","{"," ","l","e","t"," ","i","t","e","m"," ","="," ","x"," ","}","}","{","{"," ","r","a","n","g","e"," ","i","t","e","m"," ","i","n"," ","m"," ","}","}","{","{"," ","e","n","d"," ","}","}","{","{"," ","$","i","t","e","m"," ","}","}","{","{"," ","e","n","d"," ","}","}">>

\* {{ a.b }}{{ if a.b }}T{{ else }}F{{ end }}
src_absentField == <<"{","{"," ","a",".","b"," ","}","}","{","{"," ","i","f"," ","a",".","b"," ","}","}","T","{","{"," ","e","l","s","e"," ","}","}","F","{","{"," ","e","n","d"," ","}","}">>
\* {{ a[1] }}{{ if a[1] }}T{{ else }}F{{ end }}
src_absentIndex == <<"{","{"," ","a","[","1","]"," ","}","}","{","{"," ","i","f"," ","a","[","1","]"," ","}","}","T","{","{"," ","e","l","s","e"," ","}","}","F","{","{"," ","e","n","d"," ","}","}">>
\* {{ a["b"] }}{{ if a["b"] }}T{{ else }}F{{ end }}
src_absentKey == <<"{","{"," ","a","[","\"","b","\"","]"," ","}","}","{","{"," ","i","f"," ","a","[","\"","b","\"","]"," ","}","}","T","{","{"," ","e","l","s","e"," ","}","}","F","{","{"," ","e","n","d"," ","}","}">>
\* {{ $n.b }}{{ if $n.b }}T{{ else }}F{{ end }}
src_absentLocal == <<"{","{"," ","$","n",".","b"," ","}","}","{","{"," ","i","f"," ","$","n",".","b"," ","}","}","T","{","{"," ","e","l","s","e"," ","}","}","F","{","{"," ","e","n","d"," ","}","}">>
\* {{ let n = a }}{{ $n.b }}{{ if $n.b }}T{{ else }}F{{ end }}
src_absentLet == <<"{","{"," ","l","e","t"," ","n"," ","="," ","a"," ","}","}","{","{"," ","$","n",".","b"," ","}","}","{","{"," ","i","f"," ","$","n",".","b"," ","}","}","T","{","{"," ","e","l","s","e"," ","}","}","F","{","{"," ","e","n","d"," ","}","}">>

\* {{ with user }}[{{ name }}{{ x }}]{{ end }}{{ x }}
src_withScope == <<"{","{"," ","w","i","t","h"," ","u","s","e","r"," ","}","}","[","{","{"," ","n","a","m","e"," ","}","}","{","{"," ","x"," ","}","}","]","{","{"," ","e","n","d"," ","}","}","{","{"," ","x"," ","}","}">>

\* {{ let n = y }}{{ with u }}{{ include "p" }}{{ end }}
src_outer == <<"{","{"," ","l","e","t"," ","n"," ","="," ","y"," ","}","}","{","{"," ","w","i","t","h"," ","u"," ","}","}","{","{"," ","i","n","c","l","u","d","e"," ","\"","p","\""," ","}","}","{","{"," ","e","n","d"," ","}","}">>
\* P{{ include "q" }}
src_mid == <<"P","{","{"," ","i","n","c","l","u","d","e"," ","\"","q","\""," ","}","}">>
\* Q{{ x }}{{ $n }}
src_inner == <<"Q","{","{"," ","x"," ","}","}","{","{"," ","$","n"," ","}","}">>
\* R
src_other == <<"R">>

\* S{{ if c }}I{{ with u }}W{{ range v in m }}R{{ $v | nope }}r{{ end }}w{{ end }}i{{ end }}s
src_nest == <<"S","{","{"," ","i","f"," ","c"," ","}","}","I","{","{"," ","w","i","t","h"," ","u"," ","}","}","W","{","{"," ","r","a","n","g","e"," ","v"," ","i","n"," ","m"," ","}","}","R","{","{"," ","$","v"," ","|"," ","n","o","p","e"," ","}","}","r","{","{"," ","e","n","d"," ","}","}","w","{","{"," ","e","n","d"," ","}","}","i","{","{"," ","e","n","d"," ","}","}","s">>

\* {{ range v in m }}{{ let n = $v }}{{ $n }}{{ end }}[{{ $n }}]
src_letInRange == <<"{","{"," ","r","a","n","g","e"," ","v"," ","i","n"," ","m"," ","}","}","{","{"," ","l","e","t"," ","n"," ","="," ","$","v"," ","}","}","{","{"," ","$","n"," ","}","}","{","{"," ","e","n","d"," ","}","}","[","{","{"," ","$","n"," ","}","}","]">>
\* {{ with u }}{{ let n = x }}{{ $n }}{{ end }}[{{ $n }}]
src_letInWith == <<"{","{"," ","w","i","t","h"," ","u"," ","}","}","{","{"," ","l","e","t"," ","n"," ","="," ","x"," ","}","}","{","{"," ","$","n"," ","}","}","{","{"," ","e","n","d"," ","}","}","[","{","{"," ","$","n"," ","}","}","]">>

\* {{ items.0.name }}
src_dotIndex == <<"{","{"," ","i","t","e","m","s",".","0",".","n","a","m","e"," ","}","}">>
\* {{ items[0].name }}
src_bracketIndex == <<"{","{"," ","i","t","e","m","s","[","0","]",".","n","a","m","e"," ","}","}">>

name_p == <<"p">>
name_q == <<"q">>
k_u == <<"u">>
k_y == <<"y">>
k_a == <<"a">>
k_b == <<"b">>
k_n == <<"n">>
k_x == <<"x">>
k_c == <<"c">>
k_m == <<"m">>
k_title == <<"t","i","t","l","e">>
k_user == <<"u","s","e","r">>
k_name == <<"n","a","m","e">>
k_items == <<"i","t","e","m","s">>

data1(k, v) == mapV(k :> v)
data2(k1, v1, k2, v2) == mapV(k1 :> v1 @@ k2 :> v2)
emptyData == mapV(<<>>)

vA == strV(<<"A">>)
vB == strV(<<"B">>)
named(v) == data1(k_name, v)

\* the values a condition is tested on
CondValues ==
    {nilV, boolV(FALSE), boolV(TRUE), strV(<<>>), strV(<<"x">>), intV(0), intV(1),
     seqV(<<>>), seqV(<<vA>>), mapV(<<>>), named(vA), nilSeqV, nilMapV}

\* the values a loop ranges over
IterValues ==
    {seqV(<<>>), seqV(<<named(vA)>>), seqV(<<named(vA), named(vB)>>),
     seqV(<<named(vB), named(vA)>>), seqV(<<vA, named(vB)>>),
     nilV, strV(<<"A","B">>), intV(2), boolV(TRUE), nilSeqV}

\* the sources that print and test one path, and the values its first
\* segment is bound to
AbsentSources ==
    {src_absentField, src_absentIndex, src_absentKey, src_absentLocal, src_absentLet}
PathValues ==
    {data1(k_b, vA), mapV(<<>>), vA, intV(1), seqV(<<vA>>), seqV(<<vA, vB>>),
     nilV, nilMapV}

\* the data a With over user is rendered with: name and x bound inside
\* user, outside it, or both
WithDatas ==
    {mapV(k_user :> data2(k_name, vA, k_x, strV(<<"C">>)) @@ k_x :> vB @@ k_name :> strV(<<"N">>)),
     mapV(k_user :> mapV(<<>>) @@ k_x :> vB @@ k_name :> strV(<<"N">>)),
     data2(k_x, vB, k_name, strV(<<"N">>)),
     data2(k_user, nilV, k_x, vB),
     data2(k_user, vA, k_x, vB),
     data1(k_user, named(strV(<<"<">>)))}

\* a template that includes p, a partial that includes q, and two leaves:
\* the caller may register the partial under p on the first template, one
\* leaf under q on the first template and the other under q on the partial
NestedIncludes ==
    [srcs |-> <<input(src_outer), input(src_mid), input(src_inner), input(src_other)>>,
     datas |-> {mapV(k_u :> data1(k_x, vA) @@ k_y :> vB @@ k_x :> strV(<<"C">>)),
                data2(k_u, emptyData, k_y, vA)},
     regs |-> {<<1, name_p, 2>>, <<1, name_q, 3>>, <<2, name_q, 4>>}]

\* the data of the nested blocks: the innermost Print fails on the first
\* item of u.m whenever c is true and u.m has an item
nestData(c, m) == data2(k_c, boolV(c), k_u, data1(k_m, m))
NestDatas ==
    {nestData(TRUE, seqV(<<vA, vB>>)), nestData(TRUE, seqV(<<>>)),
     nestData(TRUE, data2(k_a, vA, k_b, vB)), nestData(FALSE, seqV(<<vA>>)),
     data1(k_c, boolV(TRUE))}

\* the collections a loop over plain values ranges over
PlainValues ==
    {seqV(<<vA, vB>>), seqV(<<>>), data2(<<"a">>, vA, <<"b">>, vB), data1(<<"a">>, vA), vA}

Scenarios ==
    { [srcs |-> <<input(src_unknownFilter)>>,
       datas |-> {data1(k_x, strV(<<"v">>)), emptyData, data1(k_x, nilV),
                  data1(k_x, intV(0))}],
      [srcs |-> <<input(src_pipeOrder)>>,
       datas |-> {data1(k_title, strV(<<" "," ","P","r","o","d","u","c","t","s"," "," ">>)), data1(k_title, intV(12)),
                  emptyData}],
      [srcs |-> <<input(src_pipes)>>,
       datas |-> {
data1(k_title, strV(<<" "," ","P","r","o","d","u","c","t","s"," "," ">>)),
                  data1(k_title, strV(<<" ","a","<","b"," ">>)), emptyData}],
      [srcs |-> <<input(src_print)>>,
       datas |-> {data1(k_user, named(strV(<<"<","b",">">>))),
                  data1(k_user, named(strV(<<"a","&","'","\"","z">>))),
                  data1(k_user, named(intV(12))), data1(k_user, vA), emptyData}],
      [srcs |-> <<input(src_raw)>>,
       datas |-> {data1(k_user, named(strV(<<"<","b",">">>))),
                  data1(k_user, named(strV(<<"a","&","'","\"","z">>))), emptyData}],
      [srcs |-> <<input(src_include), input(src_partial)>>,
       datas |-> {data1(k_x, strV(<<"v">>)), emptyData}],
      [srcs |-> <<input(src_letLast)>>,
       datas |-> {data1(k_x, strV(<<"v">>)), emptyData}],
      [srcs |-> <<input(src_withAbort)>>,
       datas |-> {data2(k_user, named(vA), k_x, vB), data1(k_x, vB)}],
      [srcs |-> <<input(src_withScope)>>, datas |-> WithDatas],
      NestedIncludes,
      [srcs |-> <<input(src_nest)>>, datas |-> NestDatas],
      [srcs |-> <<input(src_dotIndex)>>,
       datas |-> {data1(k_items, seqV(<<named(vA), named(vB)>>)), data1(k_items, seqV(<<>>)),
                  data1(k_items, data1(<<"0">>, named(vB)))}],
      [srcs |-> <<input(src_bracketIndex)>>,
       datas |-> {data1(k_items, seqV(<<named(vA), named(vB)>>)), data1(k_items, seqV(<<>>)),
                  data1(k_items, data1(<<"0">>, named(vB)))}],

      [srcs |-> <<input(src_letInRange)>>,
       datas |-> {data1(k_m, seqV(<<vA, vB>>)), data1(k_m, seqV(<<>>))}],
      [srcs |-> <<input(src_letInWith)>>,
       datas |-> {data1(k_u, data1(k_x, vA)), emptyData}],

      [srcs |-> <<input(src_include), input(src_nest)>>,
       datas |-> {nestData(TRUE, seqV(<<vA, vB>>)), nestData(TRUE, seqV(<<>>))}] }
    \cup {[srcs |-> <<input(src)>>, datas |-> {data1(k_c, v), emptyData}] :
             src \in {src_ifElse, src_if}, v \in CondValues}
    \cup {[srcs |-> <<input(src_range)>>, datas |-> {data1(k_items, v), emptyData}] :
             v \in IterValues}
    \cup {[srcs |-> <<input(src)>>,
           datas |-> {data1(k_m, v), data1(k_m, seqV(<<vA, vB>>))}] :
             src \in {src_rangeValues, src_rangeAbort}, v \in PlainValues}
    \cup {[srcs |-> <<input(src)>>, datas |-> {data1(k_a, v), emptyData}] :
             src \in AbsentSources, v \in PathValues}
    \cup {[srcs |-> <<input(src_rangeShadow)>>,
           datas |-> {data2(k_m, v, k_x, strV(<<"o">>)), data1(k_m, v)}] :
             v \in PlainValues}


\* the caller starts with one of the scenarios and nothing compiled
Init == \E c \in Scenarios : InitState(c)

Spec == Init /\ [][Next]_vars

\* ------------------------------------------------------------------------
\* Generated sources: every concatenation of up to MaxFrags fragments
\* ------------------------------------------------------------------------

Frags ==
    {<<"A">>, <<"{">>, <<"{","{">>, <<"}","}">>, <<"{","{"," ","x"," ","}","}">>, <<"{","{","i","f"," ","x","}","}">>, <<"{","{","e","l","s","e","}","}">>, <<"{","{","e","n","d","}","}">>,
     <<"{","{","r","a","n","g","e"," ","i"," ","i","n"," ","x","}","}">>, <<"{","{","r","a","n","g","e"," ","x","}","}">>, <<"{","{","w","i","t","h"," ","x","}","}">>, <<"{","{","l","e","t"," ","n","}","}">>, <<"{","{","i","n","c","l","u","d","e","}","}">>}

RECURSIVE Concats(_)
Concats(n) ==
    IF n = 0 THEN {<<>>}
    ELSE LET shorter == Concats(n - 1)
         IN shorter \cup {s \o f : s \in shorter, f \in Frags}

GenSources == Concats(MaxFrags)

ParseDatas == {data1(k_x, seqV(<<vA, vB>>)), emptyData}

InitParse ==
    \E s \in GenSources : InitState([srcs |-> <<input(s)>>, datas |-> ParseDatas])

SpecParse == InitParse /\ [][Next]_vars

\* ------------------------------------------------------------------------
\* Nested blocks: every concatenation of up to MaxNest block tags and texts
\* ------------------------------------------------------------------------

MaxNest == 4

NestFrags ==
    {<<"A">>, <<"{","{","i","f"," ","x","}","}">>, <<"{","{","e","l","s","e","}","}">>, <<"{","{","e","n","d","}","}">>, <<"{","{","r","a","n","g","e"," ","i"," ","i","n"," ","x","}","}">>, <<"{","{","w","i","t","h"," ","x","}","}">>}

RECURSIVE Nestings(_)
Nestings(n) ==
    IF n = 0 THEN {<<>>}
    ELSE Nestings(n - 1) \cup {s \o f : s \in Nestings(n - 1), f \in NestFrags}

InitNest ==
    \E s \in Nestings(MaxNest) :
        InitState([srcs |-> <<input(s)>>, datas |-> {data1(k_x, seqV(<<vA, vB>>))}])

SpecNest == InitNest /\ [][Next]_vars

\* ------------------------------------------------------------------------
\* Concurrent renders: each goroutine makes one Template.Render call and

\* runs it step by step, one step per call on the pool or the context and
\* one per child of the root sequence; "done" is the goroutine after its
\* call returned
\* ------------------------------------------------------------------------

\* the nodes seqNode.render loops over at the root
children(root) == IF root.t = "seq" THEN root.nodes ELSE <<root>>

\* ctx := renderCtxPool.Get().(*renderCtx)
ThreadGet(i, t, data) ==
    /\ ~halted
    /\ thr[i].pc = "idle"
    /\ \E id \in poolGet :
         /\ pool' = poolAfterGet(id)
         /\ ctxs' = [x \in DOMAIN ctxs \cup {id} |-> IF x = id THEN ctxOf(id) ELSE ctxs[x]]
         /\ thr' = [thr EXCEPT ![i] = [@ EXCEPT !.pc = "got", !.ctx = id, !.tmpl = t,
                                          !.data = data, !.k = 0, !.out = <<>>,
                                          !.err = NoErr]]
    /\ UNCHANGED <<heap, caller, lastCompile, last, run, libVars>>

\* ctx.reset(data, t.parts, t.filt, t.fieldCache)
ThreadReset(i) ==
    /\ ~halted
    /\ thr[i].pc = "got"
    /\ LET id == thr[i].ctx
           t == heap[thr[i].tmpl]
       IN ctxs' = [ctxs EXCEPT ![id] = ctxReset(@, thr[i].data, t.parts, t.filt)]
    /\ thr' = [thr EXCEPT ![i].pc = "run", ![i].k = 1]
    /\ UNCHANGED <<heap, pool, caller, lastCompile, last, run, libVars>>

\* one child of the root rendered against the goroutine's context
ThreadRenderChild(i) ==
    /\ ~halted
    /\ thr[i].pc = "run"
    /\ thr[i].err = NoErr
    /\ thr[i].k <= Len(children(heap[thr[i].tmpl].root))
    /\ LET id == thr[i].ctx
           ctx == ctxs[id]
           env == [parts |-> ctx.parts, filters |-> ctx.filters, heap |-> heap]
           n == children(heap[thr[i].tmpl].root)[thr[i].k]
       IN \E r \in render(n, renderState(ctx, thr[i].out, NoErr), env, 0) :
            /\ ctxs' = [ctxs EXCEPT ![id] = [@ EXCEPT !.data = r.data,
                                                      !.locals = r.locals]]
            /\ thr' = [thr EXCEPT ![i] = [@ EXCEPT !.out = r.out, !.err = r.err,
                                                   !.k = @ + 1]]
    /\ UNCHANGED <<heap, pool, caller, lastCompile, last, run, libVars>>

\* the deferred renderCtxPool.Put(ctx), and the return to the caller
ThreadPut(i) ==
    /\ ~halted
    /\ thr[i].pc = "run"
    /\ thr[i].err # NoErr \/ thr[i].k > Len(children(heap[thr[i].tmpl].root))
    /\ thr' = [thr EXCEPT ![i].pc = "done"]
    /\ pool' = poolPut(pool, thr[i].ctx)
    /\ ctxs' = restrict(ctxs, pool' \cup
                 {thr[j].ctx : j \in {h \in Threads \ {i} : thr[h].pc \in {"got", "run"}}})
    /\ UNCHANGED <<heap, caller, lastCompile, last, run, libVars>>

NextThreads ==
    \/ CompileCall
    \/ \E reg \in caller.regs :
          /\ reg[1] \in DOMAIN heap /\ reg[3] \in DOMAIN heap
          /\ RegisterPartial(reg[1], reg[2], reg[3])
    \/ \E i \in Threads, t \in DOMAIN heap, data \in caller.datas : ThreadGet(i, t, data)
    \/ \E i \in Threads : ThreadReset(i)
    \/ \E i \in Threads : ThreadRenderChild(i)
    \/ \E i \in Threads : ThreadPut(i)

\* {{ let n = x }}{{ if $n }}{{ $n }}{{ end }}{{ x }}
src_letUse == <<"{","{"," ","l","e","t"," ","n"," ","="," ","x"," ","}","}","{","{"," ","i","f"," ","$","n"," ","}","}","{","{"," ","$","n"," ","}","}","{","{"," ","e","n","d"," ","}","}","{","{"," ","x"," ","}","}">>
\* {{ with user }}{{ name }}{{ end }}{{ x }}
src_with == <<"{","{"," ","w","i","t","h"," ","u","s","e","r"," ","}","}","{","{"," ","n","a","m","e"," ","}","}","{","{"," ","e","n","d"," ","}","}","{","{"," ","x"," ","}","}">>

ThreadScenarios ==
    { [srcs |-> <<input(src_letUse)>>,
       datas |-> {data1(k_x, vA), data1(k_x, vB), emptyData}],
      [srcs |-> <<input(src_with)>>,
       datas |-> {data2(k_user, named(vA), k_x, vB), data2(k_user, named(vB), k_x, vA)}],
      [srcs |-> <<input(src_rangeShadow)>>,
       datas |-> {data2(k_m, seqV(<<vA, vB>>), k_x, strV(<<"o">>)),
                  data1(k_m, data2(<<"a">>, vA, <<"b">>, vB)),
                  data2(k_m, vA, k_x, vB)}],
      [srcs |-> <<input(src_rangeShadowAbort)>>,
       datas |-> {data2(k_m, seqV(<<vA, vB>>), k_x, strV(<<"o">>)),
                  data1(k_m, data2(<<"a">>, vA, <<"b">>, vB)),
                  data2(k_m, seqV(<<>>), k_x, vB)}],
      [srcs |-> <<input(src_rangeNested)>>,
       datas |-> {data2(k_m, seqV(<<vA, vB>>), k_x, strV(<<"o">>)),
                  data1(k_m, seqV(<<vA>>))}],
      [srcs |-> <<input(src_rangeAbort)>>,
       datas |-> {data1(k_m, seqV(<<vA, vB>>)), data1(k_m, seqV(<<>>))}] }

InitThreads == \E c \in ThreadScenarios : InitState(c)

SpecThreads == InitThreads /\ [][NextThreads]_vars
\* ------------------------------------------------------------------------
\* PrecomputeFieldAccess beside concurrent renders
\* ------------------------------------------------------------------------

\* {{ x }}{{ if user.name }}{{ user.name }}{{ end }}
src_fields == <<"{","{"," ","x"," ","}","}","{","{"," ","i","f"," ","u","s","e","r",".","n","a","m","e"," ","}","}","{","{"," ","u","s","e","r",".","n","a","m","e"," ","}","}","{","{"," ","e","n","d"," ","}","}">>

\* type User struct{ name string }; type Page struct{ x any; user User };
\* type Other struct{ y any; x any }
type_User == structType("User", <<field(k_name, otherType)>>)
type_Page == structType("Page", <<field(k_x, otherType), field(k_user, type_User)>>)
type_Other == structType("Other", <<field(k_y, otherType), field(k_x, otherType)>>)

PrecomputeScenarios ==
    { [srcs |-> <<input(src_fields)>>,
       datas |-> {data2(k_x, vA, k_user, named(vB))},
       types |-> {type_Page, type_Other}] }

NextPrecompute ==
    \/ CompileCall
    \/ \E t \in DOMAIN heap, dataType \in caller.types : PrecomputeFieldAccess(t, dataType)
    \/ \E i \in Threads, t \in DOMAIN heap, data \in caller.datas : ThreadGet(i, t, data)
    \/ \E i \in Threads : ThreadReset(i)
    \/ \E i \in Threads : ThreadRenderChild(i)
    \/ \E i \in Threads : ThreadPut(i)

InitPrecompute == \E c \in PrecomputeScenarios : InitState(c)

SpecPrecompute == InitPrecompute /\ [][NextPrecompute]_vars

\* ------------------------------------------------------------------------
\* Properties
\* ------------------------------------------------------------------------


\* the last Render call ran against the partial maps as they are now
lastIsCurrent == last.tmpl # 0 /\ run.n >= 1

\* what one Render of template t with data can produce on a context that
\* was never used before
FreshOutcomes(t, data) ==
    LET ctx == ctxReset(newRenderCtx, data, heap[t].parts, heap[t].filt)
        env == [parts |-> heap[t].parts, filters |-> heap[t].filt, heap |-> heap]
    IN {[out |-> r.out, err |-> r.err] :
            r \in render(heap[t].root, renderState(ctx, <<>>, NoErr), env, 0)}

\* the source has no occurrence of the left delimiter
noTag(src) == \A k \in 1..(Len(src) - 1) : <<src[k], src[k + 1]>> # <<"{","{">>

\* C1: a source without any tag compiles, and every Render of it writes the
\* source text byte for byte and returns no error, whatever the data
C1_NoTagVerbatim ==
    (lastCompile.called /\ noTag(lastCompile.src)) =>
        /\ lastCompile.err = ""
        /\ lastCompile.tmpl # nilTemplate
        /\ (last.tmpl = 1 => last.out = lastCompile.src /\ last.err = NoErr)

\* a source of several bytes without a tag has been compiled and rendered
C1_Witness ==
    /\ lastCompile.called
    /\ noTag(lastCompile.src)
    /\ Len(lastCompile.src) >= 3
    /\ last.tmpl = 1
    /\ last.out = lastCompile.src

\* the first child of the root that is a Print with a filter its template
\* does not register, when only text precedes it; 0 if there is none
firstUnknownFilter(t) ==
    LET nodes == children(heap[t].root)
        bad == {k \in 1..Len(nodes) :
                  /\ nodes[k].t = "print"
                  /\ \E j \in 1..Len(nodes[k].pipes) :
                        nodes[k].pipes[j].name \notin DOMAIN heap[t].filt
                  /\ \A h \in 1..(k - 1) : nodes[h].t = "text"}
    IN IF bad = {} THEN 0 ELSE CHOOSE k \in bad : \A h \in bad : k <= h

\* the text nodes among nodes[from..to], concatenated
RECURSIVE textOf(_, _, _)
textOf(nodes, from, to) ==
    IF from > to THEN <<>>
    ELSE (IF nodes[from].t = "text" THEN nodes[from].text ELSE <<>>)
         \o textOf(nodes, from + 1, to)

\* the path of a Print resolves against the data alone
resolves(acc, data) == accGet(acc, [data |-> data, locals |-> <<>>]).ok

\* C2 as stated: a render that reaches a Print with an unregistered filter
\* fails with the filter-not-found error, and writes nothing after the tag
C2_UnknownFilterFails ==
    (last.tmpl # 0 /\ firstUnknownFilter(last.tmpl) # 0) =>
        LET k == firstUnknownFilter(last.tmpl)
            nodes == children(heap[last.tmpl].root)
        IN /\ last.err # NoErr
           /\ last.err[1] = "unknown filter"
           /\ last.out = textOf(nodes, 1, k - 1)

\* C2 amended: the render fails with the filter-not-found error, leaving
\* only the text before the tag in the sink, exactly when the Print's path
\* resolves; when the path is absent the Print is skipped without an error
\* and the text after it is written
C2_UnknownFilterFailsIfResolved ==
    (last.tmpl # 0 /\ firstUnknownFilter(last.tmpl) # 0) =>
        LET k == firstUnknownFilter(last.tmpl)
            nodes == children(heap[last.tmpl].root)
        IN IF resolves(nodes[k].acc, last.data)
           THEN /\ last.err # NoErr
                /\ last.err[1] = "unknown filter"
                /\ last.err[2] \notin DOMAIN heap[last.tmpl].filt
                /\ last.out = textOf(nodes, 1, k - 1)
           ELSE (\A h \in (k + 1)..Len(nodes) : nodes[h].t = "text") =>
                   /\ last.err = NoErr
                   /\ last.out = textOf(nodes, 1, Len(nodes))

\* A{{ x | nope }}B was rendered with x present and failed after writing A
C2_Witness ==
    /\ last.tmpl = 1
    /\ lastCompile.src = src_unknownFilter
    /\ resolves(<<fieldStep(k_x)>>, last.data)
    /\ last.err = ErrUnknownFilter(<<"n","o","p","e">>)
    /\ last.out = <<"A">>

\* the goroutines that are inside Template.Render
inFlight == {i \in Threads : thr[i].pc \in {"got", "run"}}

\* C3: while goroutines render one template concurrently, no render context
\* is held by two in-flight renders nor handed out while still pooled, and
\* every call that has returned produced what rendering its own data alone
\* on a fresh context produces
C3_ConcurrentRendersIsolated ==
    /\ \A i \in inFlight : \A j \in inFlight \ {i} : thr[i].ctx # thr[j].ctx
    /\ \A i \in inFlight : thr[i].ctx \notin pool
    /\ \A i \in Threads :
          thr[i].pc = "done" =>

              [out |-> thr[i].out, err |-> thr[i].err]
                  \in FreshOutcomes(thr[i].tmpl, thr[i].data)

\* two goroutines are both part-way through rendering the same template
\* with different data
C3_Witness ==
    /\ thr[1].pc = "run" /\ thr[2].pc = "run"
    /\ thr[1].tmpl = thr[2].tmpl
    /\ thr[1].data # thr[2].data
    /\ thr[1].k > 1 /\ thr[2].k > 1
    /\ thr[1].out # thr[2].out

\* the child of the root goroutine i renders next
nextChild(i) == children(heap[thr[i].tmpl].root)[thr[i].k]

\* goroutine i takes the step that renders a Range child of the root, and
\* the node returns (with or without an error)
rangeStep(i) ==
    /\ thr[i].pc = "run"
    /\ thr[i].k <= Len(children(heap[thr[i].tmpl].root))
    /\ thr'[i].k = thr[i].k + 1
    /\ nextChild(i).t = "range"
    /\ ~isPanic(thr'[i].err)

\* C4: whenever a Range node returns, after all its iterations, after none,
\* or on the error of an iteration, the local under the loop variable's
\* name is what it was when the node started: the same value if it was
\* bound, absent if it was not
C4_RangeRestoresLoopVariable ==
    [][\A i \in Threads :
          rangeStep(i) =>
              lookupLocal(ctxs'[thr[i].ctx].locals, nextChild(i).item)
                  = lookupLocal(ctxs[thr[i].ctx].locals, nextChild(i).item)]_vars

\* {{ let item = x }}{{ range item in m }}{{ $item | nope }}{{ end }} has
\* failed in the first iteration of its Range, and $item is x again
C4_Witness ==
    \E i \in Threads :
        /\ thr[i].pc = "run"
        /\ lastCompile.src = src_rangeShadowAbort
        /\ thr[i].k = 3
        /\ thr[i].err = ErrUnknownFilter(<<"n","o","p","e">>)
        /\ accGet(<<fieldStep(k_m)>>, [data |-> thr[i].data, locals |-> <<>>]).v
               = seqV(<<vA, vB>>)
        /\ lookupLocal(ctxs[thr[i].ctx].locals, <<"i","t","e","m">>) = found(strV(<<"o">>))

\* what the path resolves to against the data alone
resolved(path, data) == accGet(path, [data |-> data, locals |-> <<>>])

\* the last Render wrote out and returned no error
wrote(out) ==
 last.out = out /\ last.err = NoErr

\* the last Render was of the one template compiled from src
rendered(src) == last.tmpl = 1 /\ lastCompile.src = src

\* the three registered functions the scenario pipelines name
trimOf(s) == filterFunc("trim", s, <<>>).s
upperOf(s) == filterFunc("upper", s, <<>>).s
lengthOf(s) == filterFunc("length", s, <<>>).s

\* C5: a Print whose path resolves writes the stringified value passed
\* through its pipes from left to right and then HTML-escaped, a raw Print
\* the piped text as it is: {{ title | trim | upper }} on "  Products  "
\* writes PRODUCTS, {{ user.name }} on <b> writes &lt;b&gt;, and no
\* escaped output holds a byte of < > " '
C5_PrintPipesThenEscapes ==
    /\ rendered(src_pipes) =>
         LET r == resolved(<<fieldStep(k_title)>>, last.data)
         IN /\ r.ok => wrote(htmlEscapeFast(upperOf(trimOf(toStringFast(r.v)))))
            /\ last.data = data1(k_title, strV(<<" "," ","P","r","o","d","u","c","t","s"," "," ">>)) => wrote(<<"P","R","O","D","U","C","T","S">>)
            /\ last.data = data1(k_title, strV(<<" ","a","<","b"," ">>)) => wrote(<<"A","&","l","t",";","B">>)
    /\ rendered(src_pipeOrder) =>
         LET r == resolved(<<fieldStep(k_title)>>, last.data)
         IN /\ r.ok => wrote(htmlEscapeFast(lengthOf(trimOf(toStringFast(r.v)))))
            /\ last.data = data1(k_title, strV(<<" "," ","P","r","o","d","u","c","t","s"," "," ">>)) => wrote(<<"8">>)
    /\ rendered(src_print) =>
         LET r == resolved(<<fieldStep(k_user), fieldStep(k_name)>>, last.data)
         IN /\ r.ok => wrote(htmlEscapeFast(toStringFast(r.v)))
            /\ last.data = data1(k_user, named(strV(<<"<","b",">">>))) => wrote(<<"&","l","t",";","b","&","g","t",";">>)
            /\ last.data = data1(k_user, named(strV(<<"a","&","'","\"","z">>)))
                  => wrote(<<"a","&","a","m","p",";","&","#","3","9",";","&","q","u","o","t",";","z">>)
            /\ \A k \in 1..Len(last.out) : last.out[k] \notin {"<", ">", "\"", "'"}
    /\ rendered(src_raw) =>
         LET r == resolved(<<fieldStep(k_user), fieldStep(k_name)>>, last.data)
         IN /\ r.ok => wrote(toStringFast(r.v))
            /\ last.data = data1(k_user, named(strV(<<"<","b",">">>))) => wrote(<<"<","b",">">>)

\* {{ title | trim | upper }} was rendered on " a<b " and wrote A&lt;B
C5_Witness ==
    /\ rendered(src_pipes)
    /\ last.data = data1(k_title, strV(<<" ","a","<","b"," ">>))
    /\ wrote(<<"A","&","l","t",";","B">>)

\* the Range nodes of the tree under n
RECURSIVE rangesIn(_)
rangesIn(n) ==
    CASE n.t = "seq"   -> UNION {rangesIn(n.nodes[k]) : k \in 1..Len(n.nodes)}
      [] n.t = "if"    -> rangesIn(n.then) \cup rangesIn(n.els)
      [] n.t = "with"  -> rangesIn(n.body)
      [] n.t = "range" -> {n} \cup rangesIn(n.body)
      [] OTHER         -> {}

\* the value holds, at some depth, a map of two or more entries
RECURSIVE hasWideMap(_)
hasWideMap(v) ==
    CASE v.k = "map" -> \/ Cardinality(DOMAIN v.m) >= 2
                        \/ \E x \in DOMAIN v.m : hasWideMap(v.m[x])
      [] v.k = "seq" -> \E k \in 1..Len(v.e) : hasWideMap(v.e[k])
      [] OTHER       -> FALSE

\* the outcome of the last Render call
lastOutcome == [out |-> last.out, err |-> last.err]

\* C6 as stated: from the second call of a run of Render calls with one
\* template and one data on, output and error are those of the first call
C6_RepeatedRenderSameOutput ==
    run.n >= 2 => (last.out = run.out /\ last.err = run.err)

\* C6 amended: whatever earlier calls left in the pooled context, a Render
\* call produces an outcome that a render on a fresh context produces; the
\* calls of a run agree whenever the render has one possible outcome, and it
\* has more than one only when the template holds a Range and the data a map
\* of two or more entries, whose iteration order differs from call to call
C6_RepeatedRenderStable ==
    lastIsCurrent =>
        /\ lastOutcome \in FreshOutcomes(last.tmpl, last.data)
        /\ (run.n >= 2 /\ Cardinality(FreshOutcomes(last.tmpl, last.data)) = 1)
              => (last.out = run.out /\ last.err = run.err)
        /\ Cardinality(FreshOutcomes(last.tmpl, last.data)) > 1
              => (rangesIn(heap[last.tmpl].root) # {} /\ hasWideMap(last.data))

\* {{ if $n }}S{{ end }}{{ let n = x }} has been rendered again with the
\* same data, the pooled context still binds n from an earlier call, and
\* the output is that of the first call
C6_Witness ==
    /\ rendered(src_letLast)
    /\ run.n >= 2
    /\ resolved(<<fieldStep(k_x)>>, last.data).ok
    /\ \E id \in pool : lookupLocal(ctxs[id].locals, <<"n">>).ok
    /\ wrote(<<>>)

\* truthiness as the If contract words it: absent, null, false, the empty
\* string, zero, an empty sequence and an empty map are falsy
statedTruthy(r) ==
    /\ r.ok
    /\ CASE r.v.k = "nil"  -> FALSE
         [] r.v.k = "bool" -> r.v.b
         [] r.v.k = "str"  -> r.v.s # <<>>
         [] r.v.k = "int"  -> r.v.n # 0
         [] r.v.k = "seq"  -> r.v.e # <<>>
         [] r.v.k = "map"  -> DOMAIN r.v.m # {}

\* C7 as stated: {{ if c }}A{{ else }}B{{ end }} writes A exactly when c
\* is truthy in the stated sense and B otherwise, and {{ if c }}A{{ end }}
\* writes A or nothing
C7_IfFollowsStatedTruthiness ==
    /\ rendered(src_ifElse) =>
          wrote(IF statedTruthy(resolved(<<fieldStep(k_c)>>, last.data))
                THEN <<"A">> ELSE <<"B">>)
    /\ rendered(src_if) =>
          wrote(IF statedTruthy(resolved(<<fieldStep(k_c)>>, last.data))
                THEN <<"A">> ELSE <<>>)

\* what {{ $item.name }}, writes for each element of e in turn: the
\* escaped name of the element if it has one, then the comma
RECURSIVE namesOf(_)
namesOf(e) ==
    IF e = <<>> THEN <<>>
    ELSE (IF resolved(<<fieldStep(k_name)>>, Head(e)).ok
          THEN htmlEscapeFast(toStringFast(resolved(<<fieldStep(k_name)>>, Head(e)).v))
          ELSE <<>>)
         \o <<",">> \o namesOf(Tail(e))

\* C8: {{ range item in items }}{{ $item.name }},{{ end }} renders its body
\* once per element of a sequence, in positional order, with $item bound to
\* the element ([{name:A},{name:B}] gives A,B,); over an absent, null or
\* scalar iterable it writes nothing and returns no error
C8_RangeOverSequenceInOrder ==
    rendered(src_range) =>
        LET r == resolved(<<fieldStep(k_items)>>, last.data)
        IN /\ (r.ok /\ r.v.k = "seq") => wrote(namesOf(r.v.e))
           /\ (~r.ok \/ r.v.k \notin {"seq", "map"}) => wrote(<<>>)
           /\ r.v = seqV(<<named(vA), named(vB)>>) => wrote(<<"A",",","B",",">>)
           /\ r.v = seqV(<<named(vB), named(vA)>>) => wrote(<<"B",",","A",",">>)

\* the Range has been rendered over [{name:A},{name:B}] and wrote A,B,
C8_Witness ==
    /\ rendered(src_range)
    /\ resolved(<<fieldStep(k_items)>>, last.data).v = seqV(<<named(vA), named(vB)>>)
    /\ wrote(<<"A",",","B",",">>)

\* the trees Compile builds from the sources of the include scenarios
tree_include == Compile(src_include, DefaultOptions).tmpl.root
tree_inner == Compile(src_inner, DefaultOptions).tmpl.root
tree_mid == Compile(src_mid, DefaultOptions).tmpl.root
tree_nest == Compile(src_nest, DefaultOptions).tmpl.root
tree_outer == Compile(src_outer, DefaultOptions).tmpl.root
tree_partial == Compile(src_partial, DefaultOptions).tmpl.root

\* template t is the one compiled to the tree root
compiledFrom(t, root) == t \in DOMAIN heap /\ heap[t].root = root

\* what P{{ x }} writes for the data
partialText(data) ==
    <<"P">> \o (IF resolved(<<fieldStep(k_x)>>, data).ok
            THEN htmlEscapeFast(toStringFast(resolved(<<fieldStep(k_x)>>, data).v))
            ELSE <<>>)

\* C9: Render of X{{ include "ghost" }}Y fails with the partial-not-found
\* error, after writing X only, while no partial is registered under ghost;
\* once the template compiled from P{{ x }} is registered under that name,
\* its root is rendered in place, between X and Y
C9_IncludeRendersRegisteredPartial ==
    (lastIsCurrent /\ compiledFrom(last.tmpl, tree_include)) =>
        /\ name_ghost \notin DOMAIN heap[last.tmpl].parts =>
              /\ last.err = ErrPartialNotFound(name_ghost)
              /\ last.out = <<"X">>
        /\ (/\ name_ghost \in DOMAIN heap[last.tmpl].parts
            /\ compiledFrom(heap[last.tmpl].parts[name_ghost], tree_partial)) =>
              wrote(<<"X">> \o partialText(last.data) \o <<"Y">>)

\* X{{ include "ghost" }}Y was rendered with nothing registered under
\* ghost: the call failed with partial-not-found after writing X
C9_Witness ==
    /\ lastIsCurrent
    /\ compiledFrom(last.tmpl, tree_include)
    /\ heap[last.tmpl].parts = <<>>
    /\ last.err = ErrPartialNotFound(name_ghost)
    /\ last.out = <<"X">>

\* the tags of a source in scanning order, each with its trimmed content;
\* open marks a left delimiter that no right delimiter follows
RECURSIVE tagsOf(_)
tagsOf(s) ==
    IF Index(s, <<"{","{">>) = -1 THEN <<>>
    ELSE IF Index(SliceFrom(s, Index(s, <<"{","{">>) + 2), <<"}","}">>) = -1
    THEN <<[open |-> TRUE, tag |-> <<>>]>>
    ELSE <<[open |-> FALSE,
            tag |-> fastTrim(Slice(SliceFrom(s, Index(s, <<"{","{">>) + 2), 0,
                        Index(SliceFrom(s, Index(s, <<"{","{">>) + 2), <<"}","}">>)))]>>
         \o tagsOf(SliceFrom(SliceFrom(s, Index(s, <<"{","{">>) + 2),
                       Index(SliceFrom(s, Index(s, <<"{","{">>) + 2), <<"}","}">>) + 2))

\* the keyword of a tag: its first whitespace-delimited field
keyword(tag) == IF splitFieldsFast(tag) = <<>> THEN <<>> ELSE splitFieldsFast(tag)[1]

\* the number of blocks still open after the tags from k on, d being open
\* before them; an end outside any block closes nothing
RECURSIVE openBlocks(_, _, _)
openBlocks(tags, k, d) ==
    IF k > Len(tags) THEN d
    ELSE IF keyword(tags[k].tag) \in {chars_if, chars_range, chars_with}
    THEN openBlocks(tags, k + 1, d + 1)
    ELSE IF tags[k].tag = chars_end /\ d > 0 THEN openBlocks(tags, k + 1, d - 1)
    ELSE openBlocks(tags, k + 1, d)

\* the source has one of the defects Compile is to reject: an unterminated
\* tag, a range tag without ` in `, a let tag without `=`, an include tag
\* without a name, or a block that is still open at the end
defective(src) ==
    \/ \E k \in 1..Len(tagsOf(src)) :
          \/ tagsOf(src)[k].open
          \/ keyword(tagsOf(src)[k].tag) = chars_range
               /\ Index(fastTrim(TrimPrefix(tagsOf(src)[k].tag, chars_range)), chars_in) = -1
          \/ keyword(tagsOf(src)[k].tag) = chars_let
               /\ Index(tagsOf(src)[k].tag, <<"=">>) = -1
          \/ keyword(tagsOf(src)[k].tag) = chars_include
               /\ Len(splitFieldsFast(tagsOf(src)[k].tag)) < 2
    \/ openBlocks(tagsOf(src), 1, 0) > 0

\* C10 as stated: Compile of a source with an unterminated tag, an
\* unterminated block, a malformed range or let tag or an include without a
\* name returns an error and no template, and no Compile call returns a
\* template together with an error
C10_DefectiveSourceIsRejected ==
    lastCompile.called =>
        /\ defective(lastCompile.src) =>
              (lastCompile.err \notin {"", Hang} /\ lastCompile.tmpl = nilTemplate)
        /\ ~(lastCompile.tmpl # nilTemplate /\ lastCompile.err # "")

\* ------------------------------------------------------------------------
\* C11: unsatisfiable path steps
\* ------------------------------------------------------------------------

\* the path each of the sources prints and tests
probePath(src) ==
    CASE src = src_absentField -> <<fieldStep(k_a), fieldStep(k_b)>>
      [] src = src_absentIndex -> <<fieldStep(k_a), indexStep(1)>>
      [] src = src_absentKey   -> <<fieldStep(k_a), keyStep(k_b)>>
      [] src = src_absentLocal -> <<localStep(k_n), fieldStep(k_b)>>
      [] src = src_absentLet   -> <<localStep(k_n), fieldStep(k_b)>>

\* the local bindings in force where the path is resolved: the Let of
\* the last source binds n to the value of a, or to nil
probeLocals(src, data) ==
    IF src = src_absentLet
    THEN k_n :> (IF data.k = "map" /\ k_a \in DOMAIN data.m THEN data.m[k_a] ELSE nilV)
    ELSE <<>>

\* the step cannot be taken from v: a field or key that v does not have,
\* or v not a map; an index outside v, or v not a sequence
stuck(st, v) ==
    CASE st.s = "field" -> ~(v.k = "map" /\ st.name \in DOMAIN v.m)
      [] st.s = "key"   -> ~(v.k = "map" /\ st.key \in DOMAIN v.m)
      [] st.s = "index" -> ~(v.k = "seq" /\ st.idx < Len(v.e))
      [] OTHER          -> FALSE

\* the value the step leads to
stepValue(st, v) ==
    CASE st.s = "field" -> v.m[st.name]
      [] st.s = "key"   -> v.m[st.key]
      [] st.s = "index" -> v.e[st.idx + 1]
      [] OTHER          -> v

\* some step of the path, from position k on, cannot be taken
RECURSIVE unsatisfied(_, _, _)
unsatisfied(steps, k, cur) ==
    /\ k <= Len(steps)
    /\ \/ stuck(steps[k], cur)
       \/ unsatisfied(steps, k + 1, stepValue(steps[k], cur))

\* the path has a step that cannot be satisfied, an unbound $name included
pathUnsatisfied(steps, data, locals) ==
    IF steps[1].s = "local"
    THEN \/ steps[1].name \notin DOMAIN locals
         \/ unsatisfied(steps, 2, locals[steps[1].name])
    ELSE unsatisfied(steps, 1, data)

printed(name, v) ==
    IF resolved(<<fieldStep(name)>>, v).ok
    THEN htmlEscapeFast(toStringFast(resolved(<<fieldStep(name)>>, v).v))
    ELSE <<>>

\* what {{ with user }}[{{ name }}{{ x }}]{{ end }}{{ x }} is to write
withText(data) ==
    (IF resolved(<<fieldStep(k_user)>>, data).ok
     THEN <<"[">> \o printed(k_name, resolved(<<fieldStep(k_user)>>, data).v)
                  \o printed(k_x, resolved(<<fieldStep(k_user)>>, data).v) \o <<"]">>
     ELSE <<>>) \o printed(k_x, data)

\* C12: the body of With resolves its ambient paths against the value
\* of the With accessor and the nodes after the block against the data
\* the caller passed; a With whose accessor is absent renders nothing of
\* its body; and once the With has returned, normally or with the error
\* of its body, the data scope of the context is the caller's data again
C12_WithScopesData ==
    /\ rendered(src_withScope) => wrote(withText(last.data))
    /\ (rendered(src_withScope) \/ rendered(src_withAbort))
         => last.scope = last.data

\* both exits were taken: a With body that printed user.name and user.x
\* before the caller's x, and a With body that failed
C12_Witness ==
    \/ rendered(src_withScope) /\ wrote(<<"[","A","C","]","B">>) /\ last.scope = last.data
    \/ rendered(src_withAbort) /\ last.err # NoErr /\ last.scope = last.data

\* ------------------------------------------------------------------------
\* C13: one render context per Render call
\* ------------------------------------------------------------------------

\* goroutine i is inside a Render call and holds a context
inCall(i) == thr[i].pc \in {"got", "run"}

\* goroutine i has rendered no node yet
beforeFirstNode(i) == thr[i].pc = "run" /\ thr[i].k = 1

\* the context of goroutine i is bound to the template it renders, and
\* before the first node to the caller's data and to no local binding
resetForCall(i) ==
    /\ ctxs[thr[i].ctx].parts = heap[thr[i].tmpl].parts
    /\ ctxs[thr[i].ctx].filters = heap[thr[i].tmpl].filt
    /\ beforeFirstNode(i) =>
          ctxs[thr[i].ctx].data = thr[i].data /\ ctxs[thr[i].ctx].locals = <<>>

\* while calls are in flight: a rendering goroutine's context was reset
\* for its call, is live, is not in the pool, and is held by it alone
poolProtocolState ==
    /\ \A i \in Threads : thr[i].pc = "run" => resetForCall(i)
    /\ \A i \in Threads : inCall(i) => thr[i].ctx \in DOMAIN ctxs /\ thr[i].ctx \notin pool
    /\ \A i, j \in Threads : inCall(i) /\ inCall(j) /\ i # j => thr[i].ctx # thr[j].ctx

\* every step: a call keeps the context it acquired; a call ends only by
\* putting that context back (a full pool drops it), after a success as
\* after a failure; a call that has ended changes nothing any more; and a
\* context changes only under the hands of the one call that holds it
poolProtocolStep ==
    /\ \A i \in Threads : inCall(i) /\ inCall(i)' => thr'[i].ctx = thr[i].ctx
    /\ \A i \in Threads : thr[i].pc # "done" /\ thr'[i].pc = "done" =>
          /\ thr[i].pc = "run"
          /\ thr[i].ctx \in pool' \/ Cardinality(pool) >= MaxPool
    /\ \A i \in Threads : thr[i].pc = "done" => thr'[i] = thr[i]
    /\ \A id \in DOMAIN ctxs \cap DOMAIN ctxs' : ctxs'[id] # ctxs[id] =>
          \E i \in Threads : inCall(i) /\ thr[i].ctx = id

\* C13: a Render call acquires one context, resets it to the caller's
\* data, no locals and the template's partials and filters before the
\* first node is rendered, renders every node with that context, puts it
\* back when the call ends, failed or not, and never touches it afterwards
C13_OneContextPerRender == []poolProtocolState /\ [][poolProtocolStep]_vars

\* one call ended with an error and one without, and their contexts went
\* back: one is pooled, no goroutine holds any
C13_Witness ==
    /\ \E i \in Threads : thr[i].pc = "done" /\ thr[i].err # NoErr
    /\ \E i \in Threads : thr[i].pc = "done" /\ thr[i].err = NoErr
    /\ pool # {} /\ held = {}

\* ------------------------------------------------------------------------
\* C14: where Include looks its partial up
\* ------------------------------------------------------------------------

\* the last Render was of the template that includes p, with the partial
\* that includes q registered on it under p
nestedRendered ==
    /\ lastIsCurrent
    /\ compiledFrom(last.tmpl, tree_outer)
    /\ name_p \in DOMAIN heap[last.tmpl].parts
    /\ compiledFrom(heap[last.tmpl].parts[name_p], tree_mid)

\* what the leaf registered as t writes inside {{ with u }} after
\* {{ let n = y }}: Q{{ x }}{{ $n }} prints u.x and the caller's y
leafText(t, data) ==
    IF compiledFrom(t, tree_inner)
    THEN <<"Q">> \o printed(k_x, resolved(<<fieldStep(k_u)>>, data).v) \o printed(k_y, data)
    ELSE <<"R">>

\* the outcome of the nested render when q is looked up in parts
nestedOutcome(parts) ==
    IF name_q \in DOMAIN parts
    THEN wrote(<<"P">> \o leafText(parts[name_q], last.data))
    ELSE last.err = ErrPartialNotFound(name_q) /\ last.out = <<"P">>

\* C14 as stated: the Include of q inside the partial registered under p
\* is resolved against the partials registered on that partial
C14_IncludeLooksUpInOwningTemplate ==
    nestedRendered => nestedOutcome(heap[heap[last.tmpl].parts[name_p]].parts)

\* C14, amended: every Include reached during a Render, also one inside
\* an included partial, is resolved against the partials registered on
\* the template whose Render was called; the partial is rendered with the
\* data scope and the local bindings in force at the Include
C14_IncludeLooksUpInRenderedTemplate ==
    nestedRendered => nestedOutcome(heap[last.tmpl].parts)

\* q was registered on the partial only, and the render of the outer
\* template failed to find it; or both carry a q and the outer one's won
C14_Witness ==
    /\ nestedRendered
    /\ name_q \in DOMAIN heap[heap[last.tmpl].parts[name_p]].parts
    /\ \/ name_q \notin DOMAIN heap[last.tmpl].parts /\ last.err = ErrPartialNotFound(name_q)
       \/ /\ name_q \in DOMAIN heap[last.tmpl].parts
          /\ heap[last.tmpl].parts[name_q] # heap[heap[last.tmpl].parts[name_p]].parts[name_q]
          /\ wrote(<<"P","Q","A","B">>)

\* ------------------------------------------------------------------------
\* C15: the first error ends the render
\* ------------------------------------------------------------------------

\* the innermost Print of the nested blocks is reached: c is true, u is
\* bound and u.m has an item
nestFails(data) ==
    /\ resolved(<<fieldStep(k_c)>>, data).v = boolV(TRUE)
    /\ resolved(<<fieldStep(k_u), fieldStep(k_m)>>, data).ok
    /\ resolved(<<fieldStep(k_u), fieldStep(k_m)>>, data).v \notin {seqV(<<>>), mapV(<<>>)}

\* what the nested blocks write when nothing fails
nestText(data) ==
    <<"S">>
    \o (IF resolved(<<fieldStep(k_c)>>, data).v = boolV(TRUE)
        THEN <<"I">>
             \o (IF resolved(<<fieldStep(k_u)>>, data).ok THEN <<"W","w">> ELSE <<>>)
             \o <<"i">>
        ELSE <<>>)
    \o <<"s">>

\* the outcome of rendering the nested blocks after the text before
\* and ahead of the text after
nestOutcome(before, after) ==
    IF nestFails(last.data)
    THEN /\ last.err = ErrUnknownFilter(<<"n","o","p","e">>)
         /\ last.out = before \o <<"S","I","W","R">>
    ELSE wrote(before \o nestText(last.data) \o after)

\* C15: the unknown filter inside Range inside With inside If, rendered
\* directly or through an Include, ends the render with that very error:
\* the sink holds what was written up to the failing Print (one R, for the
\* first item only) and nothing of the nodes after it at any level
C15_FirstErrorEndsRender ==
    /\ (lastIsCurrent /\ compiledFrom(last.tmpl, tree_nest)) => nestOutcome(<<>>, <<>>)
    /\ (/\ lastIsCurrent
        /\ compiledFrom(last.tmpl, tree_include)
        /\ name_ghost \in DOMAIN heap[last.tmpl].parts
        /\ compiledFrom(heap[last.tmpl].parts[name_ghost], tree_nest))
         => nestOutcome(<<"X">>, <<"Y">>)

\* the failing Print was reached through the Include and the three blocks
C15_Witness ==
    /\ lastIsCurrent
    /\ compiledFrom(last.tmpl, tree_include)
    /\ last.err = ErrUnknownFilter(<<"n","o","p","e">>)
    /\ last.out = <<"X","S","I","W","R">>

\* ------------------------------------------------------------------------
\* C16: blocks nest by depth
\* ------------------------------------------------------------------------

RECURSIVE piecesOf(_)

\* the tag at the head of s, which closes at offset close past its opening
tagPiece(s, close) ==
    IF close = -1 THEN <<>>
    ELSE <<[text |-> FALSE, tag |-> fastTrim(Slice(s, 2, 2 + close))]>>
         \o piecesOf(SliceFrom(s, 4 + close))

\* the piece at the head of s, whose first tag opens at offset open
textPiece(s, open) ==
    IF open = -1 THEN <<[text |-> TRUE, tag |-> <<>>]>>
    ELSE IF open > 0 THEN <<[text |-> TRUE, tag |-> <<>>]>> \o piecesOf(SliceFrom(s, open))
    ELSE tagPiece(s, Index(SliceFrom(s, 2), <<"}","}">>))

\* the texts and tags of a source in scanning order; a tag is given by its
\* trimmed content
piecesOf(s) ==
    IF s = <<>> THEN <<>> ELSE textPiece(s, Index(s, <<"{","{">>))

\* the node a piece that is neither else nor end stands for
kindOf(piece) ==
    IF piece.text THEN "text"
    ELSE IF keyword(piece.tag) \in {chars_if, chars_range, chars_let, chars_with, chars_include}
    THEN CHOOSE t \in {"if", "range", "let", "with", "include"} :
            keyword(piece.tag) = [if |-> chars_if, range |-> chars_range, let |-> chars_let,
                                  with |-> chars_with, include |-> chars_include][t]
    ELSE "print"

\* a node at nesting depth d, in the else branch (e) of an if or not
at(t, d, e) == [t |-> t, d |-> d, e |-> e]

\* nesting by depth: open lists the blocks open at piece k, innermost last,
\* an if being in its then or its else branch.  An end closes the innermost
\* open block, an else ends the then branch of the innermost block when that
\* is an if, and any other piece is a node of the innermost open block.
\* The result is the nodes in source order with their depths, and the
\* blocks left open
RECURSIVE byDepth(_, _, _, _)
byDepth(pieces, k, open, nodes) ==
    IF k > Len(pieces) THEN [nodes |-> nodes, open |-> open]
    ELSE IF ~pieces[k].text /\ pieces[k].tag = <<>>
    THEN byDepth(pieces, k + 1, open, nodes)
    ELSE IF ~pieces[k].text /\ pieces[k].tag = chars_end /\ open # <<>>
    THEN byDepth(pieces, k + 1, SubSeq(open, 1, Len(open) - 1), nodes)
    ELSE IF ~pieces[k].text /\ pieces[k].tag = chars_else /\ open # <<>>
            /\ open[Len(open)] = "then"
    THEN byDepth(pieces, k + 1, [open EXCEPT ![Len(open)] = "else"], nodes)
    ELSE byDepth(pieces, k + 1,
                 IF kindOf(pieces[k]) = "if" THEN Append(open, "then")
                 ELSE IF kindOf(pieces[k]) \in {"range", "with"} THEN Append(open, "body")
                 ELSE open,
                 Append(nodes, at(kindOf(pieces[k]), Len(open),
                                  open # <<>> /\ open[Len(open)] = "else")))

\* the nodes of a compiled tree in source order, each with its depth
RECURSIVE nodesOf(_, _, _)
RECURSIVE nodesOfAll(_, _, _, _)
nodesOf(n, d, e) ==
    CASE n.t = "seq"   -> nodesOfAll(n.nodes, 1, d, e)
      [] n.t = "nil"   -> <<>>
      [] n.t = "if"    -> <<at("if", d, e)>> \o nodesOf(n.then, d + 1, FALSE)
                                            \o nodesOf(n.els, d + 1, TRUE)
      [] n.t = "range" -> <<at("range", d, e)>> \o nodesOf(n.body, d + 1, FALSE)
      [] n.t = "with"  -> <<at("with", d, e)>> \o nodesOf(n.body, d + 1, FALSE)
      [] OTHER         -> <<at(n.t, d, e)>>
nodesOfAll(nodes, k, d, e) ==
    IF k > Len(nodes) THEN <<>>
    ELSE nodesOf(nodes[k], d, e) \o nodesOfAll(nodes, k + 1, d, e)

\* the outcome c of a Compile call agrees with the nesting by depth
nestsAs(c, nest) ==
    /\ nest.open # <<>> => (c.err # "" /\ c.tmpl = nilTemplate)
    /\ c.err = "" => nodesOf(c.tmpl.root, 0, FALSE) = nest.nodes

\* C16: the tree Compile returns puts every node at the depth, and in the
\* branch, that counting block tags and their else and end tags gives it:
\* a then branch ends at the first else or end of its own depth, a range
\* or with body at the first end of its own depth, and the end of a nested
\* block closes that block only; a source that leaves a block open gets
\* an error and no template
C16_BlocksNestByDepth ==
    lastCompile.called =>
        nestsAs(lastCompile, byDepth(piecesOf(lastCompile.src), 1, <<>>, <<>>))

\* a source with a block nested in the then branch or the body of
\* another block, both closed, was compiled
C16_Witness ==
    /\ lastCompile.called
    /\ lastCompile.err = ""
    /\ \E k \in 1..Len(nodesOf(lastCompile.tmpl.root, 0, FALSE)) :
          nodesOf(lastCompile.tmpl.root, 0, FALSE)[k] \in
              {at("range", 1, FALSE), at("with", 1, FALSE), at("if", 1, FALSE)}

\* ------------------------------------------------------------------------
\* C17: Let inside a block
\* ------------------------------------------------------------------------

\* what the body of the block wrote: $n after each Let
letBodyText(data) ==
    IF resolved(<<fieldStep(k_m)>>, data).ok
    THEN IF resolved(<<fieldStep(k_m)>>, data).v = seqV(<<vA, vB>>) THEN <<"A","B">> ELSE <<>>
    ELSE printed(k_x, resolved(<<fieldStep(k_u)>>, data).v)

\* C17 as stated: a Let inside a Range or With body binds n for the nodes
\* that follow it in the body, and n is not bound after the block: the
\* Print of $n behind the block writes nothing, and the local bindings
\* at the end of the render are the ones before the block, none
C17_LetEndsWithBlock ==
    (rendered(src_letInRange) \/ rendered(src_letInWith)) =>
        /\ wrote(letBodyText(last.data) \o <<"[","]">>)
        /\ last.locals = <<>>

\* ------------------------------------------------------------------------
\* C18: the tree after Compile
\* ------------------------------------------------------------------------

\* C18 as stated: once Compile has returned a template no step changes
\* its tree, no node and no accessor step of it, so that no goroutine
\* ever renders a tree that is being written
C18_TreeImmutableAfterCompile ==
    [][\A t \in DOMAIN heap : heap'[t].root = heap[t].root]_vars

\* ------------------------------------------------------------------------
\* C19: include cycles
\* ------------------------------------------------------------------------

\* the last Render was of X{{ include "ghost" }}Y registered on itself
\* under ghost, or with a partial registered under ghost that is itself
\* X{{ include "ghost" }}Y: the include graph has a cycle
cycleRendered ==
    /\ lastIsCurrent

    /\ compiledFrom(last.tmpl, tree_include)
    /\ name_ghost \in DOMAIN heap[last.tmpl].parts
    /\ compiledFrom(heap[last.tmpl].parts[name_ghost], tree_include)

\* C19 as stated: the render of a template whose include graph has a
\* cycle ends, with an error that Render returns to its caller
C19_IncludeCycleFailsWithError ==
    cycleRendered => (last.err # NoErr /\ ~isPanic(last.err))

\* ------------------------------------------------------------------------
\* C20: a numeric segment in dot notation
\* ------------------------------------------------------------------------

\* the name of the first element of items, as a Print writes it
firstName(data) ==
    IF /\ resolved(<<fieldStep(k_items)>>, data).v.k = "seq"
       /\ resolved(<<fieldStep(k_items)>>, data).v.e # <<>>
    THEN printed(k_name, resolved(<<fieldStep(k_items)>>, data).v.e[1])
    ELSE <<>>

\* C20 as stated: over a sequence items, {{ items.0.name }} writes the
\* name of the first element, as {{ items[0].name }} does
C20_DotNumberIndexes ==
    (/\ rendered(src_dotIndex) \/ rendered(src_bracketIndex)
     /\ resolved(<<fieldStep(k_items)>>, last.data).v.k = "seq")
        => wrote(firstName(last.data))

\* ------------------------------------------------------------------------
\* Template files and the file cache.  A directory is a function from file
\* names to content and modification time; os.ReadDir lists it by name
\* ------------------------------------------------------------------------

\* strings.HasSuffix
HasSuffix(s, suf) == Len(s) >= Len(suf) /\ SliceFrom(s, Len(s) - Len(suf)) = suf

\* strings.TrimSuffix
TrimSuffix(s, suf) == IF HasSuffix(s, suf) THEN Slice(s, 0, Len(s) - Len(suf)) ELSE s

\* filepath.Ext: the name from its last dot on, or nothing
Ext(name) ==
    IF \A k \in 1..Len(name) : name[k] # "." THEN <<>>
    ELSE SliceFrom(name, (CHOOSE k \in 1..Len(name) :
                             name[k] = "." /\ \A j \in (k + 1)..Len(name) : name[j] # ".") - 1)

\* WithDelims and WithFilters
WithDelims(left, right) == [o |-> "delims", left |-> left, right |-> right]
WithFilters(f) == [o |-> "filters", filters |-> f]

\* the loop of Compile over its options
RECURSIVE applyOptions(_, _)
applyOptions(co, opts) ==
    IF opts = <<>> THEN co
    ELSE applyOptions(IF Head(opts).o = "delims"
                      THEN [co EXCEPT !.leftDelim = Head(opts).left,
                                      !.rightDelim = Head(opts).right]
                      ELSE [co EXCEPT !.filters = Head(opts).filters],
                      Tail(opts))

\* Compile(src, opts...)
CompileOpts(src, opts) == Compile(src, applyOptions(DefaultOptions, opts))

\* the name a partial file registers under: without the underscore and
\* without the extension
partialNameOf(name) ==
    TrimSuffix(TrimPrefix(name, <<"_">>), Ext(TrimPrefix(name, <<"_">>)))

\* a template the garbage collector has freed
freedTemplate == [root |-> [t |-> "freed"], parts |-> <<>>, filt |-> <<>>]

\* the identity a new Template gets on heap h: one no live template has
newId(h) ==
    IF \E t \in DOMAIN h : h[t] = freedTemplate
    THEN CHOOSE t \in DOMAIN h :
            h[t] = freedTemplate /\ \A u \in 1..(t - 1) : h[u] # freedTemplate
    ELSE Len(h) + 1

\* heap h with the new template tmpl on it
allocate(h, tmpl) ==
    IF newId(h) = Len(h) + 1 THEN Append(h, tmpl) ELSE [h EXCEPT ![newId(h)] = tmpl]

\* the templates reachable from the templates S through partial maps
RECURSIVE reachable(_, _)
reachable(h, S) ==
    IF UNION {Range(h[t].parts) : t \in S} \subseteq S THEN S
    ELSE reachable(h, S \cup UNION {Range(h[t].parts) : t \in S})

RECURSIVE dropFreed(_)
dropFreed(h) ==
    IF h # <<>> /\ h[Len(h)] = freedTemplate THEN dropFreed(SubSeq(h, 1, Len(h) - 1))
    ELSE h

\* heap h after a garbage collection with the templates roots referenced
collect(h, roots) ==
    dropFreed([t \in DOMAIN h |->
                 IF t \in reachable(h, roots \cap DOMAIN h) THEN h[t] ELSE freedTemplate])

\* the templates the caches, the reload manager, the engine and the
\* caller's last result reference
liveIn(fcv, ccv, rmv, engv, callv) ==
    {fcv[k].template : k \in DOMAIN fcv}
    \cup Range(ccv)
    \cup {rmv.watched[k].template : k \in DOMAIN rmv.watched}
    \cup Range(engv.templates)
    \cup {callv.tmpl}

\* the partial discovery of CompileFile and of Engine.Load for the
\* template t of file base: every other file of the directory whose name
\* starts with an underscore is compiled and registered on t under
\* partialName[file], unless it fails to compile or that name is
\* baseNoExt; h is the heap so far; hang: a Compile did not return
RECURSIVE discoverPartials(_, _, _, _, _, _, _, _)
discoverNext(c, h, t, files, names, base, opts, partialName, baseNoExt) ==
    IF c.err = Hang THEN [heap |-> h, hang |-> TRUE]
    ELSE IF c.err # ""
    THEN discoverPartials(h, t, files, Tail(names), base, opts, partialName, baseNoExt)
    ELSE discoverPartials(
            [allocate(h, c.tmpl)
                EXCEPT ![t].parts = bindLocal(@, partialName[Head(names)], newId(h))],
            t, files, Tail(names), base, opts, partialName, baseNoExt)

discoverPartials(h, t, files, names, base, opts, partialName, baseNoExt) ==
    IF names = <<>> THEN [heap |-> h, hang |-> FALSE]
    ELSE IF \/ Head(names) = base
            \/ ~HasPrefix(Head(names), <<"_">>)
            \/ partialName[Head(names)] = baseNoExt
    THEN discoverPartials(h, t, files, Tail(names), base, opts, partialName, baseNoExt)
    ELSE discoverNext(CompileOpts(files[Head(names)].content, opts),
                      h, t, files, names, base, opts, partialName, baseNoExt)

\* the heap after CompileFile has compiled filename into the template
\* tmpl and discovered its partials
compiledFile(h, tmpl, files, filename, opts) ==
    discoverPartials(allocate(h, tmpl), newId(h), files, sortedKeys(DOMAIN files),
                     filename, opts, [n \in DOMAIN files |-> partialNameOf(n)],
                     TrimSuffix(filename, Ext(filename)))

\* a cache hit that does not look at the modification times
cacheFresh_always(cached, modTime) == TRUE

\* !cached.modTime.Before(info.ModTime())
cacheFresh(cached, modTime) == ~(cached.modTime < modTime)

\* the caches left by the eviction of CompileFile and CompileCache.Compile:
\* a cache that has reached maxSize loses the first key its map iteration
\* yields, which is any of its keys
evictions(cache, maxSize) ==
    IF Cardinality(DOMAIN cache) >= maxSize /\ DOMAIN cache # {}
    THEN {[k \in DOMAIN cache \ {gone} |-> cache[k]] : gone \in DOMAIN cache}
    ELSE {cache}

\* what a call of CompileFile returns and leaves behind
fileResult(tmpl, err, h, cache) == [tmpl |-> tmpl, err |-> err, heap |-> h, fc |-> cache]

\* CompileFile once the partials are discovered, with outcome d: the
\* template is cached when the call has no options
compileFileDiscovered(d, h, cache, maxSize, files, filename, opts) ==
    IF d.hang THEN {fileResult(0, Hang, h, cache)}
    ELSE IF opts # <<>> THEN {fileResult(newId(h), "", d.heap, cache)}
    ELSE {fileResult(newId(h), "", d.heap,
            [k \in DOMAIN kept \cup {filename} |->
                IF k = filename
                THEN [template |-> newId(h), modTime |-> files[filename].modTime]
                ELSE kept[k]]) : kept \in evictions(cache, maxSize)}

\* CompileFile once Compile returned c for the file's content
compileFileCompiled(c, h, cache, maxSize, files, filename, opts) ==
    IF c.err # "" THEN {fileResult(0, c.err, h, cache)}
    ELSE compileFileDiscovered(compiledFile(h, c.tmpl, files, filename, opts),
                               h, cache, maxSize, files, filename, opts)

\* FileCache.CompileFile(filename, opts...) on heap h, cache entries cache
\* of a cache of size maxSize and directory files: the outcomes
CompileFile(h, cache, maxSize, files, filename, opts) ==
    IF filename \notin DOMAIN files
    THEN {fileResult(0, "stat", h, cache)}
    ELSE IF /\ filename \in DOMAIN cache
            /\ cacheFresh(cache[filename], files[filename].modTime)
            /\ opts = <<>>
    THEN {fileResult(cache[filename].template, "", h, cache)}
    ELSE compileFileCompiled(CompileOpts(files[filename].content, opts),
                             h, cache, maxSize, files, filename, opts)

\* ------------------------------------------------------------------------
\* The caller of the file cache: it writes the files of one directory and
\* calls CompileFile on a cache made by NewFileCache(MaxFileCache)
\* ------------------------------------------------------------------------

\* the maxSize of the caller's file cache
MaxFileCache == 1

\* the modification times a file goes through
MaxModTime == 1

file_page == <<"p","a","g","e",".","h","t","m","l">>
file_head == <<"_","h","e","a","d",".","h","t","m","l">>
file_missing == <<"g","o","n","e",".","h","t","m","l">>

\* A{{ include "head" }}
src_pageA == <<"A","{","{"," ","i","n","c","l","u","d","e"," ","\"","h","e","a","d","\""," ","}","}">>
\* B{{ include "head" }}
src_pageB == <<"B","{","{"," ","i","n","c","l","u","d","e"," ","\"","h","e","a","d","\""," ","}","}">>
\* {{ if x }}
src_open == <<"{","{"," ","i","f"," ","x"," ","}","}">>

file(content, modTime) == [content |-> content, modTime |-> modTime]

\* what the caller writes into the page file; the partial file stays
\* as it is
Contents == {src_pageA, src_pageB, src_open}

\* the files the caller asks for
FileNames == {file_page, file_head, file_missing}

\* the options the caller passes: none, or its own delimiters
OptionLists == {<<>>, <<WithDelims(<<"[","[">>, <<"]","]">>)>>}

\* os.WriteFile(name, content): the modification time advances, or stays
\* when the write falls into the same tick of the file system's clock
WriteFile(name, content) ==
    /\ ~halted
    /\ name \in DOMAIN fs
    /\ \E modTime \in {fs[name].modTime, fs[name].modTime + 1} :
          /\ modTime <= MaxModTime
          /\ fs' = [fs EXCEPT ![name] = file(content, modTime)]
    /\ fs' # fs
    /\ UNCHANGED <<heap, ctxs, pool, caller, lastCompile, last, run, thr,
                   fc, cc, rm, eng, tp, call, gor>>

\* cache.CompileFile(filename, opts...) on the caller's file cache
CompileFileCall(filename, opts) ==
    /\ ~halted
    /\ \E r \in CompileFile(heap, fc, MaxFileCache, fs, filename, opts) :
          /\ fc' = r.fc
          /\ call' = [noCall EXCEPT !.op = "CompileFile", !.name = filename,
                                     !.opts = opts, !.tmpl = r.tmpl, !.err = r.err]
          /\ heap' = collect(r.heap, liveIn(fc', cc, rm, eng, call'))
    /\ UNCHANGED <<ctxs, pool, caller, lastCompile, last, run, thr,
                   fs, cc, rm, eng, tp, gor>>

NextFiles ==
    \/ \E content \in Contents : WriteFile(file_page, content)
    \/ \E filename \in FileNames, opts \in OptionLists : CompileFileCall(filename, opts)

\* nothing compiled, nothing rendered, no goroutine
InitCore ==
    /\ heap = <<>>
    /\ ctxs = <<>>
    /\ pool = {}
    /\ caller = [srcs |-> <<>>, datas |-> {}, regs |-> {}, types |-> {}]
    /\ lastCompile = noCompile
    /\ last = noRender
    /\ run = noRun
    /\ thr = [i \in Threads |-> idleThread]

\* the directory holds the two files, written at time 0
InitFiles ==
    /\ InitCore
    /\ \E page \in {src_pageA, src_open} :
          fs = (file_page :> file(page, 0) @@ file_head :> file(<<"H">>, 0))
    /\ fc = <<>>
    /\ cc = <<>>
    /\ rm = noReloadManager
    /\ eng = noEngine
    /\ tp = noTemplatePool
    /\ call = noCall
    /\ gor = <<>>

SpecFiles == InitFiles /\ [][NextFiles]_vars

\* ------------------------------------------------------------------------
\* C21: CompileFile and the modification times
\* ------------------------------------------------------------------------

\* what Compile makes of each content the page file takes
pageOutcome == [content \in Contents |-> Compile(content, DefaultOptions)]

\* this step is a call of CompileFile(f) without options
compileFileStep(f) ==
    /\ fs' = fs
    /\ call'.op = "CompileFile"
    /\ call'.name = f
    /\ call'.opts = <<>>

\* the cache holds f with a modification time not earlier than the file's
cacheCurrent(f) == f \in DOMAIN fc /\ f \in DOMAIN fs /\ fc[f].modTime >= fs[f].modTime

\* C21: a call of CompileFile without options returns the cached template,
\* and leaves the cache alone, when the entry's modification time is not
\* earlier than the file's, and never returns it otherwise; when the page
\* file's time has advanced past the entry's, the call compiles the file's
\* present content, returns that new template and stores it with the
\* file's time, and when that content does not compile it returns an error
\* and the cache stays as it was
C21_CompileFileChecksModTime ==
    [][\A f \in FileNames :
          compileFileStep(f) =>
              /\ cacheCurrent(f) =>
                    call'.err = "" /\ call'.tmpl = fc[f].template /\ fc' = fc
              /\ (f \in DOMAIN fc /\ call'.tmpl = fc[f].template) => cacheCurrent(f)
              /\ (f = file_page /\ f \in DOMAIN fc /\ ~cacheCurrent(f)) =>
                    IF pageOutcome[fs[f].content].err = ""
                    THEN /\ call'.err = ""
                         /\ call'.tmpl # fc[f].template
                         /\ heap'[call'.tmpl].root = pageOutcome[fs[f].content].tmpl.root
                         /\ fc'[f] = [template |-> call'.tmpl, modTime |-> fs[f].modTime]
                    ELSE /\ call'.err # ""
                         /\ call'.tmpl = 0
                         /\ fc' = fc]_vars

\* the page file was cached, its time then advanced, and CompileFile has
\* returned a template of its present content and cached it at that time
C21_Witness ==
    /\ call.op = "CompileFile"
    /\ call.name = file_page
    /\ call.opts = <<>>
    /\ call.err = ""
    /\ fs[file_page].modTime = MaxModTime
    /\ fs[file_page].content = src_pageB
    /\ fc[file_page] = [template |-> call.tmpl, modTime |-> MaxModTime]
    /\ heap[call.tmpl].root = pageOutcome[src_pageB].tmpl.root

\* ------------------------------------------------------------------------
\* The reload manager (reload.go) and the Engine (template.go)
\* ------------------------------------------------------------------------

\* maxSize of globalFileCache
globalFileCacheSize == 1000

\* the package-level CompileFile: it goes through the global file cache,
\* which evicts nothing while it holds fewer than globalFileCacheSize
\* files, so the call has one outcome
globalCompileFile(h, cache, files, filename, opts) ==
    CHOOSE r \in CompileFile(h, cache, globalFileCacheSize, files, filename, opts) : TRUE

\* the callback NewTemplate registers, and the one a server registers
\* to log reloads
cb_engine == "engine"
cb_log == "log"

\* the callback of NewTemplate on (filename, template, err): it returns on
\* an error, and otherwise stores the template under the file's name
\* without the extension
engineCallback(engv, filename, tmpl, err) ==
    IF err # "" THEN engv
    ELSE [engv EXCEPT !.templates = bindLocal(@, TrimSuffix(filename, engv.ext), tmpl)]

\* for _, callback := range rm.callbacks { callback(filename, tmpl, err) }:
\* the Engine afterwards
runCallbacks(cbs, engv, filename, tmpl, err) ==
    IF \E k \in DOMAIN cbs : cbs[k] = cb_engine
    THEN engineCallback(engv, filename, tmpl, err)
    ELSE engv

\* the same loop: what each callback was called with
notifications(cbs, filename, tmpl, err) ==
    [k \in DOMAIN cbs |->
        [cb |-> cbs[k], filename |-> filename, tmpl |-> tmpl, err |-> err]]

\* what a call into the reload manager returns and leaves behind
reloadResult(tmpl, err, h, cache, rmv, engv, notified) ==
    [tmpl |-> tmpl, err |-> err, heap |-> h, fc |-> cache, rm |-> rmv, eng |-> engv,
     notified |-> notified]

\* the watch entry WatchFile, checkFile and GetTemplate write
watchInfo(lastModTime, template) == [lastModTime |-> lastModTime, template |-> template]

\* stat.ModTime().After(info.lastModTime)
modified(files, rmv, filename) ==
    files[filename].modTime > rmv.watched[filename].lastModTime

\* the reload of checkFile and GetTemplate once CompileFile succeeded with
\* r: the entry is updated and every callback is called
reloaded(r, rmv, engv, files, filename) ==
    reloadResult(r.tmpl, "", r.heap, r.fc,
        [rmv EXCEPT !.watched[filename] = watchInfo(files[filename].modTime, r.tmpl)],
        runCallbacks(rmv.callbacks, engv, filename, r.tmpl, ""),
        notifications(rmv.callbacks, filename, r.tmpl, ""))

\* a checkFile that records the modification time of a file that failed
\* to compile
checkFileCompiled_markSeen(r, rmv, engv, files, filename) ==
    IF r.err # ""
    THEN reloadResult(0, r.err, r.heap, r.fc,
            [rmv EXCEPT !.watched[filename].lastModTime = files[filename].modTime],
            runCallbacks(rmv.callbacks, engv, filename, 0, r.err),
            notifications(rmv.callbacks, filename, 0, r.err))
    ELSE reloaded(r, rmv, engv, files, filename)

\* checkFile after CompileFile returned r: on an error every callback gets
\* (filename, nil, err) and the entry is left alone
checkFileCompiled(r, rmv, engv, files, filename) ==
    IF r.err # ""
    THEN reloadResult(0, r.err, r.heap, r.fc, rmv,
            runCallbacks(rmv.callbacks, engv, filename, 0, r.err),
            notifications(rmv.callbacks, filename, 0, r.err))
    ELSE reloaded(r, rmv, engv, files, filename)

\* rm.checkFile(filename)
checkFile(h, cache, rmv, engv, files, filename) ==
    IF \/ filename \notin DOMAIN files
       \/ filename \notin DOMAIN rmv.watched
       \/ ~modified(files, rmv, filename)
    THEN reloadResult(0, "", h, cache, rmv, engv, <<>>)
    ELSE checkFileCompiled(globalCompileFile(h, cache, files, filename, <<>>),
                           rmv, engv, files, filename)

\* GetTemplate after CompileFile returned r for a modified file: an error
\* is returned, and no callback hears of it
getTemplateCompiled(r, rmv, engv, files, filename) ==
    IF r.err # ""
    THEN reloadResult(0, r.err, r.heap, r.fc, rmv, engv, <<>>)
    ELSE reloaded(r, rmv, engv, files, filename)

\* GetTemplate for a file that is not watched
getTemplateUnwatched(r, rmv, engv) ==
    reloadResult(r.tmpl, r.err, r.heap, r.fc, rmv, engv, <<>>)

\* rm.GetTemplate(filename, opts...); r is what CompileFile returns where
\* GetTemplate calls it
getTemplateFrom(r, h, cache, rmv, engv, files, filename) ==
    IF filename \notin DOMAIN rmv.watched
    THEN getTemplateUnwatched(r, rmv, engv)
    ELSE IF filename \notin DOMAIN files
    THEN reloadResult(0, "stat", h, cache, rmv, engv, <<>>)
    ELSE IF modified(files, rmv, filename)
    THEN getTemplateCompiled(r, rmv, engv, files, filename)
    ELSE reloadResult(rmv.watched[filename].template, "", h, cache, rmv, engv, <<>>)

GetTemplate(h, cache, rmv, engv, files, filename, opts) ==
    getTemplateFrom(globalCompileFile(h, cache, files, filename, opts),
                    h, cache, rmv, engv, files, filename)

\* rm.WatchDirectory(dir) over the entries names of the directory, in the
\* order of os.ReadDir: every .html or .tpl file that CompileFile compiles
\* is watched with its template and its modification time
RECURSIVE WatchDirectory(_, _, _)
watchNext(r, rmv, files, names) ==
    IF r.err # ""
    THEN WatchDirectory([heap |-> r.heap, fc |-> r.fc, rm |-> rmv], files, Tail(names))
    ELSE WatchDirectory(
            [heap |-> r.heap, fc |-> r.fc,
             rm |-> [rmv EXCEPT !.watched =
                        bindLocal(@, Head(names),
                                  watchInfo(files[Head(names)].modTime, r.tmpl))]],
            files, Tail(names))

\* w is the heap, the global file cache and the manager so far
WatchDirectory(w, files, names) ==
    IF names = <<>> THEN w
    ELSE IF ~(\/ HasSuffix(Head(names), <<".","h","t","m","l">>)
              \/ HasSuffix(Head(names), <<".","t","p","l">>))
    THEN WatchDirectory(w, files, Tail(names))
    ELSE watchNext(globalCompileFile(w.heap, w.fc, files, Head(names), <<>>),
                   w.rm, files, names)

\* Engine.Load over the entries names of the directory: every file with
\* the Engine's extension is compiled with the default options, gets the
\* partials of its directory, and is stored under its name without the
\* extension; the first one that does not compile ends Load with its error
RECURSIVE Load(_, _, _, _, _)
loadDiscovered(d, h, templates, files, names, ext) ==
    IF d.hang THEN [err |-> Hang, heap |-> h, templates |-> templates]
    ELSE Load(d.heap, bindLocal(templates, TrimSuffix(Head(names), ext), newId(h)),
              files, Tail(names), ext)

loadCompiled(c, h, templates, files, names, ext) ==
    IF c.err # "" THEN [err |-> c.err, heap |-> h, templates |-> templates]
    ELSE loadDiscovered(
            discoverPartials(allocate(h, c.tmpl), newId(h), files,
                 sortedKeys(DOMAIN files), Head(names), <<>>,
                 [n \in DOMAIN files |-> TrimSuffix(TrimPrefix(n, <<"_">>), ext)],
                 TrimSuffix(Head(names), ext)),
            h, templates, files, names, ext)

Load(h, templates, files, names, ext) ==
    IF names = <<>> THEN [err |-> "", heap |-> h, templates |-> templates]
    ELSE IF ~HasSuffix(Head(names), ext)
    THEN Load(h, templates, files, Tail(names), ext)
    ELSE loadCompiled(Compile(files[Head(names)].content, DefaultOptions),
                      h, templates, files, names, ext)

\* the template Engine.Render renders for the page t under the layout l
\* (0: none) on heap h: a copy of the layout with its own partial map, on
\* which the page is registered as "content"
layoutCopy(h, t, l) ==
    IF l = 0 THEN h[t]
    ELSE [root |-> h[l].root, parts |-> bindLocal(h[l].parts, <<"c","o","n","t","e","n","t">>, t),
          filt |-> h[l].filt]

\* tm.Render(w, data) inside a call of the layers above, by the calling
\* goroutine: the outcomes of root.render on heap h with the context id
\* that Get returned, after reset
renderOf(tm, h, data, id) ==
    render(tm.root, renderState(ctxReset(ctxOf(id), data, tm.parts, tm.filt), <<>>, NoErr),
           [parts |-> tm.parts, filters |-> tm.filt, heap |-> h], 0)

\* the same Render: the context pool after the deferred Put, when the
\* render left the context with the data and the locals of o
renderPut(tm, data, id, o) ==
    /\ pool' = poolPut(poolAfterGet(id), id)
    /\ ctxs' = restrict(
           [x \in DOMAIN ctxs \cup {id} |->
               IF x = id
               THEN [ctxReset(ctxOf(id), data, tm.parts, tm.filt)
                        EXCEPT !.data = o.data, !.locals = o.locals]
               ELSE ctxs[x]], pool')

\* ------------------------------------------------------------------------
\* Programs that reload: a server with its own reload manager (NewServer,
\* loadTemplates, Start, then GetTemplate and Render per request), or an
\* Engine made by NewTemplate; both watch the one directory, whose files
\* the caller rewrites
\* ------------------------------------------------------------------------

ext_html == <<".","h","t","m","l">>
name_page == <<"p","a","g","e">>
name_head == <<"h","e","a","d">>
name_content == <<"c","o","n","t","e","n","t">>

\* the goroutine of rm.watchLoop, once Start has made it
watchLoop == "watchLoop"

\* a goroutine between two calls into the manager: the call it is in, the
\* file, the modification time os.Stat gave it, and what CompileFile
\* returned to it
idleGoroutine == [pc |-> "idle", op |-> "none", filename |-> <<>>, stat |-> 0,
                  tmpl |-> 0, err |-> ""]

started == watchLoop \in DOMAIN gor

\* what the caller writes into the page file and into the partial file
PageContents == {src_pageA, src_open}
HeadContents == {<<"H">>, <<"G">>}

\* NewServer, loadTemplates and Start of the server: a manager with the
\* logging callback that watches the directory
RunReloadServer ==
    /\ ~halted
    /\ rm = noReloadManager /\ eng = noEngine /\ ~started
    /\ \E w \in {WatchDirectory([heap |-> heap, fc |-> fc,
                                 rm |-> [noReloadManager EXCEPT !.callbacks = <<cb_log>>]],
                                fs, sortedKeys(DOMAIN fs))} :
          /\ rm' = w.rm
          /\ fc' = w.fc
          /\ call' = [noCall EXCEPT !.op = "RunReloadServer"]
          /\ heap' = collect(w.heap, liveIn(fc', cc, rm', eng, call'))
    /\ gor' = (watchLoop :> idleGoroutine)
    /\ UNCHANGED <<ctxs, pool, caller, lastCompile, last, run, thr, fs, cc, eng, tp>>

\* NewTemplate(dir, ".html") once Load returned r without an error: the
\* callback is added, the directory is watched, the watch loop is started
newTemplateLoaded(r) ==
    \E w \in {WatchDirectory([heap |-> r.heap, fc |-> fc,
                              rm |-> [noReloadManager EXCEPT !.callbacks = <<cb_engine>>]],
                             fs, sortedKeys(DOMAIN fs))} :
       /\ rm' = w.rm
       /\ fc' = w.fc
       /\ eng' = [templates |-> r.templates, defaultLayout |-> <<>>, ext |-> ext_html]
       /\ call' = [noCall EXCEPT !.op = "NewTemplate"]
       /\ heap' = collect(w.heap, liveIn(fc', cc, rm', eng', call'))
       /\ gor' = (watchLoop :> idleGoroutine)

\* NewTemplate(dir, ".html")
NewTemplate ==
    /\ ~halted
    /\ rm = noReloadManager /\ eng = noEngine /\ ~started
    /\ \E r \in {Load(heap, <<>>, fs, sortedKeys(DOMAIN fs), ext_html)} :
          IF r.err # ""
          THEN /\ call' = [noCall EXCEPT !.op = "NewTemplate", !.err = r.err]
               /\ UNCHANGED <<heap, fc, rm, eng, gor>>
          ELSE newTemplateLoaded(r)
    /\ UNCHANGED <<ctxs, pool, caller, lastCompile, last, run, thr, fs, cc, tp>>

\* one rm.checkFile(filename) of the watch loop; the loop checks the
\* watched files one after the other, and the caller's writes and
\* requests fall between two of its checks
CheckFile(filename) ==
    /\ ~halted
    /\ started
    /\ filename \in DOMAIN rm.watched
    /\ \E r \in {checkFile(heap, fc, rm, eng, fs, filename)} :
          /\ rm' = r.rm
          /\ fc' = r.fc
          /\ eng' = r.eng
          /\ call' = [noCall EXCEPT !.op = "checkFile", !.name = filename,
                                     !.tmpl = r.tmpl, !.err = r.err,
                                     !.notified = r.notified]
          /\ heap' = collect(r.heap, liveIn(fc', cc, rm', eng', call'))
    /\ UNCHANGED <<ctxs, pool, caller, lastCompile, last, run, thr, fs, cc, tp, gor>>

\* a request to the server: rm.GetTemplate(filename), then Render of the
\* template it returned
GetTemplateCall(filename) ==
    /\ ~halted
    /\ started /\ eng = noEngine
    /\ \E r \in {GetTemplate(heap, fc, rm, eng, fs, filename, <<>>)} :
          /\ rm' = r.rm
          /\ fc' = r.fc
          /\ IF r.err # ""
             THEN /\ call' = [noCall EXCEPT !.op = "GetTemplate", !.name = filename,
                                             !.err = r.err]
                  /\ UNCHANGED <<ctxs, pool>>
             ELSE \E id \in poolGet :
                     \E o \in renderOf(r.heap[r.tmpl], r.heap, emptyData, id) :
                        /\ renderPut(r.heap[r.tmpl], emptyData, id, o)
                        /\ call' = [noCall EXCEPT !.op = "GetTemplate",
                                       !.name = filename, !.tmpl = r.tmpl,
                                       !.out = o.out, !.rerr = o.err,
                                       !.notified = r.notified]
          /\ heap' = collect(r.heap, liveIn(fc', cc, rm', eng, call'))
    /\ UNCHANGED <<caller, lastCompile, last, run, thr, fs, cc, eng, tp, gor>>

ErrTemplateNotFound == "template not found"

\* engine.Render(w, tmplName, data) without a layout
EngineRender(tmplName) ==
    /\ ~halted
    /\ eng # noEngine
    /\ IF tmplName \notin DOMAIN eng.templates
       THEN /\ call' = [noCall EXCEPT !.op = "Engine.Render", !.name = tmplName,
                                       !.err = ErrTemplateNotFound]
            /\ UNCHANGED <<ctxs, pool>>
       ELSE \E id \in poolGet :
               \E o \in renderOf(layoutCopy(heap, eng.templates[tmplName], 0), heap,
                                 emptyData, id) :
                  /\ renderPut(layoutCopy(heap, eng.templates[tmplName], 0), emptyData,
                               id, o)
                  /\ call' = [noCall EXCEPT !.op = "Engine.Render",
                                 !.name = tmplName,
                                 !.tmpl = eng.templates[tmplName],
                                 !.out = o.out, !.rerr = o.err]
    /\ UNCHANGED <<heap, caller, lastCompile, last, run, thr, fs, fc, cc, rm, eng, tp,
                   gor>>

\* the caller edits a template file while the program runs
Edit(name, content) == started /\ WriteFile(name, content)

NextReload ==
    \/ \E content \in PageContents : Edit(file_page, content)
    \/ \E content \in HeadContents : Edit(file_head, content)
    \/ RunReloadServer
    \/ NewTemplate
    \/ \E filename \in {file_page, file_head} : CheckFile(filename)
    \/ \E filename \in {file_page, file_head} : GetTemplateCall(filename)
    \/ \E tmplName \in {name_page, name_ghost} : EngineRender(tmplName)

\* the directory holds a page that includes the partial head, and the
\* partial's file; nothing is loaded yet
InitReload ==
    /\ InitCore
    /\ \E page \in PageContents :
          fs = (file_page :> file(page, 0) @@ file_head :> file(<<"H">>, 0))
    /\ fc = <<>>
    /\ cc = <<>>
    /\ rm = noReloadManager
    /\ eng = noEngine
    /\ tp = noTemplatePool
    /\ call = noCall
    /\ gor = <<>>

SpecReload == InitReload /\ [][NextReload]_vars

\* ------------------------------------------------------------------------
\* C22, C27: reloading
\* ------------------------------------------------------------------------

\* what Compile makes of each content the two files take
reloadOutcome ==
    [content \in PageContents \cup HeadContents |-> Compile(content, DefaultOptions)]

\* this step is a request for the page: GetTemplate and Render by the
\* server, or Engine.Render, without an error
pageRequest ==
    /\ fs' = fs
    /\ \/ call'.op = "GetTemplate" /\ call'.name = file_page
       \/ call'.op = "Engine.Render" /\ call'.name = name_page
    /\ call'.err = ""

\* the partial's file was modified, and the manager has checked it since:
\* its watch entry holds the file's time and a template of its content
partialReloaded ==
    /\ file_head \in DOMAIN rm.watched
    /\ fs[file_head].modTime > 0
    /\ rm.watched[file_head].lastModTime = fs[file_head].modTime
    /\ heap[rm.watched[file_head].template].root = reloadOutcome[fs[file_head].content].tmpl.root

\* C22: after the watched partial file is modified and the reload manager
\* has checked it, every render of the page that includes it, through the
\* Engine or through GetTemplate, outputs the partial's new content
C22_ReloadCoversPartials ==
    [][(pageRequest /\ partialReloaded)
          => call'.out = <<"A">> \o fs[file_head].content]_vars

\* this step is a checkFile(f) of the watch loop
checkFileStep(f) ==
    /\ fs' = fs
    /\ call'.op = "checkFile"
    /\ call'.name = f

\* the watcher finds f modified, and its content does not compile
failsToReload(f) ==
    /\ f \in DOMAIN rm.watched
    /\ modified(fs, rm, f)
    /\ reloadOutcome[fs[f].content].err # ""

\* C27: when the watch loop's checkFile finds a modified file that does
\* not compile, every registered callback is called with a nil template
\* and the error, the file's watch entry stays as it was, and the Engine's
\* templates stay as they were; and a step changes a watch entry only
\* when checkFile or GetTemplate has compiled the file's present content,
\* to that template and the file's modification time
C27_FailedReloadKeepsEntry ==
    [][\A f \in {file_page, file_head} :
          /\ (checkFileStep(f) /\ failsToReload(f)) =>
                /\ call'.err = reloadOutcome[fs[f].content].err
                /\ call'.notified =
                      [k \in DOMAIN rm.callbacks |->
                          [cb |-> rm.callbacks[k], filename |-> f, tmpl |-> 0,
                           err |-> call'.err]]
                /\ rm'.watched[f] = rm.watched[f]
                /\ eng' = eng
                /\ \A n \in DOMAIN eng.templates :
                      heap'[eng.templates[n]] = heap[eng.templates[n]]
          /\ (f \in DOMAIN rm.watched /\ rm'.watched[f] # rm.watched[f]) =>
                /\ call'.op \in {"checkFile", "GetTemplate"}
                /\ call'.name = f
                /\ call'.err = ""
                /\ reloadOutcome[fs[f].content].err = ""
                /\ rm'.watched[f] = watchInfo(fs[f].modTime, call'.tmpl)
                /\ heap'[call'.tmpl].root = reloadOutcome[fs[f].content].tmpl.root]_vars

\* the Engine's watch loop has found the page file modified and not
\* compiling: its callback heard of the error, the watch entry still has
\* the earlier time, and the Engine still holds the page as loaded
C27_Witness ==
    /\ call.op = "checkFile"
    /\ call.name = file_page
    /\ call.err = ErrUnterminatedIf
    /\ call.notified = <<[cb |-> cb_engine, filename |-> file_page, tmpl |-> 0,
                          err |-> ErrUnterminatedIf]>>
    /\ fs[file_page].content = src_open
    /\ rm.watched[file_page].lastModTime < fs[file_page].modTime
    /\ heap[eng.templates[name_page]].root = reloadOutcome[src_pageA].tmpl.root

\* ------------------------------------------------------------------------
\* Empty tags and Let bindings of absent values: the caller compiles one
\* of the sources below and renders it with c bound or not
\* ------------------------------------------------------------------------

\* {{ if c }}{{ }}{{ end }}
src_emptyInIf == <<"{","{"," ","i","f"," ","c"," ","}","}","{","{"," ","}","}","{","{"," ","e","n","d"," ","}","}">>
\* {{ if c }}A{{ }}B{{ end }}
src_emptyInThen == <<"{","{"," ","i","f"," ","c"," ","}","}","A","{","{"," ","}","}","B","{","{"," ","e","n","d"," ","}","}">>
\* {{ if c }}A{{ else }}B{{ }}{{ end }}
src_emptyInElse == <<"{","{"," ","i","f"," ","c"," ","}","}","A","{","{"," ","e","l","s","e"," ","}","}","B","{","{"," ","}","}","{","{"," ","e","n","d"," ","}","}">>
\* {{ range v in c }}{{ }}{{ end }}
src_emptyInRange == <<"{","{"," ","r","a","n","g","e"," ","v"," ","i","n"," ","c"," ","}","}","{","{"," ","}","}","{","{"," ","e","n","d"," ","}","}">>
\* {{ with c }}{{ }}{{ end }}
src_emptyInWith == <<"{","{"," ","w","i","t","h"," ","c"," ","}","}","{","{"," ","}","}","{","{"," ","e","n","d"," ","}","}">>
\* A{{ }}B
src_emptyAtTop == <<"A","{","{"," ","}","}","B">>
\* {{ let n = c }}[{{ $n }}]{{ if $n }}T{{ else }}F{{ end }}
src_letPrint == <<"{","{"," ","l","e","t"," ","n"," ","="," ","c"," ","}","}","[","{","{"," ","$","n"," ","}","}","]","{","{"," ","i","f"," ","$","n"," ","}","}","T","{","{"," ","e","l","s","e"," ","}","}","F","{","{"," ","e","n","d"," ","}","}">>
\* [{{ c }}]{{ if c }}T{{ else }}F{{ end }}
src_directPrint == <<"[","{","{"," ","c"," ","}","}","]","{","{"," ","i","f"," ","c"," ","}","}","T","{","{"," ","e","l","s","e"," ","}","}","F","{","{"," ","e","n","d"," ","}","}">>

EdgeSources ==
    {src_emptyInIf, src_emptyInThen, src_emptyInElse, src_emptyInRange,
     src_emptyInWith, src_emptyAtTop, src_letPrint, src_directPrint}

EdgeValues == {boolV(TRUE), vA, seqV(<<vA, vB>>)}

InitEdge ==
    \E src \in EdgeSources, v \in EdgeValues :
        InitState([srcs |-> <<input(src)>>, datas |-> {data1(k_c, v), emptyData}])

SpecEdge == InitEdge /\ [][Next]_vars

\* ------------------------------------------------------------------------
\* C24: termination of Compile
\* ------------------------------------------------------------------------

\* C24: Compile returns, with a template or an error, on every source
C24_CompileTerminates ==
    lastCompile.called =>
        /\ lastCompile.err # Hang
        /\ (lastCompile.err = "") # (lastCompile.tmpl = nilTemplate)

\* ------------------------------------------------------------------------
\* C25: nil nodes
\* ------------------------------------------------------------------------

\* a child slot under n holds the nil node; the els of an If without an
\* else branch is nil by construction and is not a slot
RECURSIVE hasNilSlot(_)
hasNilSlot(n) ==
    CASE n.t = "nil"   -> TRUE
      [] n.t = "if"    -> hasNilSlot(n.then) \/ (n.els # nilNode /\ hasNilSlot(n.els))
      [] n.t = "range" -> hasNilSlot(n.body)
      [] n.t = "with"  -> hasNilSlot(n.body)
      [] n.t = "seq"   -> \E k \in 1..Len(n.nodes) : hasNilSlot(n.nodes[k])
      [] OTHER         -> FALSE

\* C25: no child slot of a compiled template holds a nil node, no Render
\* calls render on a nil node, and an empty tag adds nothing to the output
C25_NoNilChildSlot ==
    /\ \A t \in DOMAIN heap : ~hasNilSlot(heap[t].root)
    /\ last.err # PanicNilNode
    /\ (rendered(src_emptyInThen) /\ last.data = data1(k_c, vA)) => wrote(<<"A","B">>)

\* ------------------------------------------------------------------------
\* C26: a Let of an absent value
\* ------------------------------------------------------------------------

\* C26: after `let n = c` with c absent from the data, `$n` prints nothing
\* and `if $n` takes the else branch, as the direct use of c does
C26_AbsentStaysAbsentThroughLet ==
    /\ (rendered(src_directPrint) /\ last.data = emptyData) => wrote(<<"[","]","F">>)
    /\ (rendered(src_letPrint) /\ last.data = emptyData) => wrote(<<"[","]","F">>)

\* ------------------------------------------------------------------------
\* CompileCached (cache.go) and TemplatePool (pool.go)
\* ------------------------------------------------------------------------

\* maxSize of globalCompileCache
globalCompileCacheSize == 500

\* what a call of CompileCached returns and leaves behind
cachedResult(tmpl, err, h, cache) == [tmpl |-> tmpl, err |-> err, heap |-> h, cc |-> cache]

\* key := src
cacheKey(src, opts) == src

\* CompileCache.Compile once Compile returned c on a miss
compileCachedCompiled(c, h, cache, maxSize, key) ==
    IF c.err # "" THEN {cachedResult(0, c.err, h, cache)}
    ELSE {cachedResult(newId(h), "", allocate(h, c.tmpl),
             [k \in DOMAIN kept \cup {key} |-> IF k = key THEN newId(h) ELSE kept[k]])
          : kept \in evictions(cache, maxSize)}

\* CompileCache.Compile(src, opts...) on heap h and cache entries cache
CompileCached(h, cache, maxSize, src, opts) ==
    IF cacheKey(src, opts) \in DOMAIN cache
    THEN {cachedResult(cache[cacheKey(src, opts)], "", h, cache)}
    ELSE compileCachedCompiled(CompileOpts(src, opts), h, cache, maxSize,
                               cacheKey(src, opts))

\* tp.pool.Get() on a pool holding pooled: one of the pooled objects, or
\* what New returns, the template of c or the nil *Template (0) when the
\* source did not compile
templatePoolGet(h, pooled, c) ==
    {[tmpl |-> t, heap |-> h] : t \in pooled}
    \cup {IF c.err # "" THEN [tmpl |-> 0, heap |-> h]
          ELSE [tmpl |-> newId(h), heap |-> allocate(h, c.tmpl)]}

\* the error NewTemplatePool returns when Compile of its source gives c:
\* nil, New being the only place where the source is compiled
newTemplatePoolErr(c) == ""

\* ------------------------------------------------------------------------
\* A caller of CompileCached and of a TemplatePool
\* ------------------------------------------------------------------------

\* [[ c ]]{{ c }}
src_twoDelims == <<"[","["," ","c"," ","]","]","{","{"," ","c"," ","}","}">>

CachedSources == {src_twoDelims, src_open}
CachedDatas == {data1(k_c, vA), emptyData}

\* CompileCached(src, opts...), and Render of the template it returned
CompileCachedCall(src, opts, data) ==
    /\ ~halted
    /\ \E r \in CompileCached(heap, cc, globalCompileCacheSize, src, opts) :
          /\ cc' = r.cc
          /\ IF r.err # ""
             THEN /\ call' = [noCall EXCEPT !.op = "CompileCached", !.name = src,
                                             !.opts = opts, !.err = r.err]
                  /\ UNCHANGED <<ctxs, pool>>
             ELSE \E id \in poolGet :
                     \E o \in renderOf(r.heap[r.tmpl], r.heap, data, id) :
                        /\ renderPut(r.heap[r.tmpl], data, id, o)
                        /\ call' = [noCall EXCEPT !.op = "CompileCached", !.name = src,
                                       !.opts = opts, !.tmpl = r.tmpl,
                                       !.out = o.out, !.rerr = o.err]
          /\ heap' = collect(r.heap, liveIn(fc, cc', rm, eng, call') \cup tp.pooled)
    /\ UNCHANGED <<caller, lastCompile, last, run, thr, fs, fc, rm, eng, tp, gor>>

\* NewTemplatePool(src, opts...)
NewTemplatePool(src, opts) ==
    /\ ~halted
    /\ ~tp.made
    /\ tp' = [made |-> TRUE, src |-> src, opts |-> opts, pooled |-> {}]
    /\ call' = [noCall EXCEPT !.op = "NewTemplatePool", !.name = src, !.opts = opts,
                               !.err = newTemplatePoolErr(CompileOpts(src, opts))]
    /\ heap' = collect(heap, liveIn(fc, cc, rm, eng, call'))
    /\ UNCHANGED <<ctxs, pool, caller, lastCompile, last, run, thr, fs, fc, cc, rm, eng,
                   gor>>

\* tp.Render(w, data): Get, the deferred Put, and tmpl.Render, which
\* takes a render context and panics in reset when tmpl is nil
TemplatePoolRender(data) ==
    /\ ~halted
    /\ tp.made
    /\ \E g \in templatePoolGet(heap, tp.pooled, CompileOpts(tp.src, tp.opts)) :
          /\ tp' = [tp EXCEPT !.pooled = poolPut(@ \ {g.tmpl}, g.tmpl)]
          /\ IF g.tmpl = 0
             THEN /\ \E id \in poolGet :
                        /\ pool' = poolAfterGet(id)
                        /\ ctxs' = restrict(ctxs, pool')
                  /\ call' = [noCall EXCEPT !.op = "TemplatePool.Render",
                                             !.name = tp.src, !.opts = tp.opts,
                                             !.err = "panic"]
             ELSE \E id \in poolGet :
                     \E o \in renderOf(g.heap[g.tmpl], g.heap, data, id) :
                        /\ renderPut(g.heap[g.tmpl], data, id, o)
                        /\ call' = [noCall EXCEPT !.op = "TemplatePool.Render",
                                       !.name = tp.src, !.opts = tp.opts,
                                       !.tmpl = g.tmpl, !.out = o.out, !.rerr = o.err]
          /\ heap' = collect(g.heap, liveIn(fc, cc, rm, eng, call') \cup tp'.pooled)
    /\ UNCHANGED <<caller, lastCompile, last, run, thr, fs, fc, cc, rm, eng, gor>>

NextCached ==
    \/ \E src \in CachedSources, opts \in OptionLists, data \in CachedDatas :
          CompileCachedCall(src, opts, data)
    \/ \E src \in CachedSources, opts \in OptionLists : NewTemplatePool(src, opts)
    \/ \E data \in CachedDatas : TemplatePoolRender(data)

\* nothing compiled, the global cache empty, no pool made
InitCached ==
    /\ InitCore
    /\ InitLib

SpecCached == InitCached /\ [][NextCached]_vars

\* ------------------------------------------------------------------------
\* C23: TemplatePool and a source that does not compile
\* ------------------------------------------------------------------------

\* what Compile makes of each source under each option list
cachedOutcome ==
    [src \in CachedSources |-> [opts \in OptionLists |-> CompileOpts(src, opts)]]

\* C23: NewTemplatePool returns an error for a source that does not
\* compile, and no TemplatePool.Render panics
C23_PoolRejectsInvalidSource ==
    /\ call.op = "NewTemplatePool" =>
          (cachedOutcome[call.name][call.opts].err # "" => call.err # "")
    /\ call.op = "TemplatePool.Render" => call.err # "panic"

\* ------------------------------------------------------------------------
\* C28: CompileCached and the options
\* ------------------------------------------------------------------------

\* C28: CompileCached(src, opts...) returns what Compile(src, opts...)
\* returns: the same error or, on success, a template with the same tree
\* and the same filters
C28_CachedEqualsCompile ==
    call.op = "CompileCached" =>
        /\ call.err = cachedOutcome[call.name][call.opts].err
        /\ call.err = "" =>
              /\ heap[call.tmpl].root = cachedOutcome[call.name][call.opts].tmpl.root
              /\ heap[call.tmpl].filt = cachedOutcome[call.name][call.opts].tmpl.filt

\* ------------------------------------------------------------------------
\* The reload manager, access by access: the watch loop's checkFile and a
\* request's GetTemplate run as goroutines, one step per access to the
\* manager's state; a section under rm.mu that only reads, or only
\* appends, is one step, and the section that writes a watch entry is two
\* (Lock, then the writes and Unlock), so that the reads made without the
\* lock can fall inside it
\* ------------------------------------------------------------------------

request == "request"

Goroutines == {watchLoop, request}

cb_metrics == "metrics"

atPc(g, pc) == g \in DOMAIN gor /\ gor[g].pc = pc

\* the values a read of info.lastModTime made without the lock can give
\* to g: the field's value, or, while another goroutine is inside the
\* writing section, any time
racyModTime(g, filename) ==
    IF rm.mu \notin {"free", g} THEN 0..MaxModTime
    ELSE {rm.watched[filename].lastModTime}

\* the values a read of info.template made without the lock can give to
\* g: the field's value, or, while another goroutine is inside the section
\* that writes it, the pointer that goroutine is writing
racyTemplate(g, filename) ==
    {rm.watched[filename].template}
    \cup {gor[h].tmpl : h \in {x \in DOMAIN gor : x # g /\ rm.mu = x}}

\* the templates the goroutines hold in their locals
heldTemplates(gv) == {gv[g].tmpl : g \in DOMAIN gv}

\* go rm.checkFile(filename) by the watch loop, rm.GetTemplate(filename) by
\* a request: the goroutine enters the call
Begin(g, filename) ==
    /\ ~halted
    /\ started
    /\ g = watchLoop \/ g \notin DOMAIN gor \/ atPc(g, "idle")
    /\ atPc(watchLoop, "idle") \/ g # watchLoop
    /\ gor' = bindLocal(gor, g,
                 [idleGoroutine EXCEPT
                     !.op = IF g = watchLoop THEN "checkFile" ELSE "GetTemplate",
                     !.filename = filename,
                     !.pc = IF g = watchLoop THEN "stat" ELSE "lookup"])
    /\ UNCHANGED <<heap, ctxs, pool, caller, lastCompile, last, run, thr,
                   fs, fc, cc, rm, eng, tp, call>>

\* stat, err := os.Stat(filename)
Stat(g) ==
    /\ ~halted
    /\ atPc(g, "stat")
    /\ gor' = [gor EXCEPT ![g].stat = fs[gor[g].filename].modTime,
                          ![g].pc = IF gor[g].op = "checkFile" THEN "lookup"
                                    ELSE "compare"]
    /\ UNCHANGED <<heap, ctxs, pool, caller, lastCompile, last, run, thr,
                   fs, fc, cc, rm, eng, tp, call>>

\* rm.mu.RLock(); info, exists := rm.watched[filename]; rm.mu.RUnlock();
\* for a file that is not watched checkFile returns, and GetTemplate
\* returns what CompileFile gives it
Lookup(g) ==
    /\ ~halted
    /\ atPc(g, "lookup")
    /\ rm.mu = "free"
    /\ IF gor[g].filename \in DOMAIN rm.watched
       THEN /\ gor' = [gor EXCEPT ![g].pc = IF gor[g].op = "checkFile" THEN "compare"
                                            ELSE "stat"]
            /\ UNCHANGED <<heap, fc, call>>
       ELSE /\ gor' = [gor EXCEPT ![g] = idleGoroutine]
            /\ IF gor[g].op = "checkFile"
               THEN /\ call' = [noCall EXCEPT !.op = "checkFile",
                                              !.name = gor[g].filename]
                    /\ UNCHANGED <<heap, fc>>
               ELSE \E r \in {globalCompileFile(heap, fc, fs, gor[g].filename, <<>>)} :
                       /\ fc' = r.fc
                       /\ call' = [noCall EXCEPT !.op = "GetTemplate",
                                      !.name = gor[g].filename, !.tmpl = r.tmpl,
                                      !.err = r.err]
                       /\ heap' = collect(r.heap, liveIn(fc', cc, rm, eng, call')
                                                  \cup heldTemplates(gor'))
    /\ UNCHANGED <<ctxs, pool, caller, lastCompile, last, run, thr,
                   fs, cc, rm, eng, tp>>

\* if stat.ModTime().After(info.lastModTime): the field is read without
\* the lock
Compare(g) ==
    /\ ~halted
    /\ atPc(g, "compare")
    /\ \E lastModTime \in racyModTime(g, gor[g].filename) :
          IF gor[g].stat > lastModTime
          THEN /\ gor' = [gor EXCEPT ![g].pc = "compile"]
               /\ UNCHANGED call
          ELSE IF gor[g].op = "checkFile"
          THEN /\ gor' = [gor EXCEPT ![g] = idleGoroutine]
               /\ call' = [noCall EXCEPT !.op = "checkFile", !.name = gor[g].filename]
          ELSE /\ gor' = [gor EXCEPT ![g].pc = "return"]
               /\ UNCHANGED call
    /\ UNCHANGED <<heap, ctxs, pool, caller, lastCompile, last, run, thr,
                   fs, fc, cc, rm, eng, tp>>

\* tmpl, err := CompileFile(filename); GetTemplate returns the error
CompileStep(g) ==
    /\ ~halted
    /\ atPc(g, "compile")
    /\ \E r \in {globalCompileFile(heap, fc, fs, gor[g].filename, <<>>)} :
          /\ fc' = r.fc
          /\ IF r.err # "" /\ gor[g].op = "GetTemplate"
             THEN /\ gor' = [gor EXCEPT ![g] = idleGoroutine]
                  /\ call' = [noCall EXCEPT !.op = "GetTemplate",
                                 !.name = gor[g].filename, !.err = r.err]
             ELSE /\ gor' = [gor EXCEPT ![g].tmpl = r.tmpl, ![g].err = r.err,
                                        ![g].pc = IF r.err # "" THEN "notify" ELSE "lock"]
                  /\ UNCHANGED call
          /\ heap' = collect(r.heap, liveIn(fc', cc, rm, eng, call') \cup heldTemplates(gor'))
    /\ UNCHANGED <<ctxs, pool, caller, lastCompile, last, run, thr, fs, cc, rm, eng, tp>>

\* rm.mu.Lock()
LockStep(g) ==
    /\ ~halted
    /\ atPc(g, "lock")
    /\ rm.mu = "free"
    /\ rm' = [rm EXCEPT !.mu = g]
    /\ gor' = [gor EXCEPT ![g].pc = "write"]
    /\ UNCHANGED <<heap, ctxs, pool, caller, lastCompile, last, run, thr,
                   fs, fc, cc, eng, tp, call>>

\* info.lastModTime = stat.ModTime(); info.template = tmpl; rm.mu.Unlock()
WriteStep(g) ==
    /\ ~halted
    /\ atPc(g, "write")
    /\ rm' = [rm EXCEPT !.watched[gor[g].filename] = watchInfo(gor[g].stat, gor[g].tmpl),
                        !.mu = "free"]
    /\ gor' = [gor EXCEPT ![g].pc = "notify"]
    /\ heap' = collect(heap, liveIn(fc, cc, rm', eng, call) \cup heldTemplates(gor'))
    /\ UNCHANGED <<ctxs, pool, caller, lastCompile, last, run, thr,
                   fs, fc, cc, eng, tp, call>>

\* for _, callback := range rm.callbacks { callback(filename, tmpl, err) }:
\* the slice is read without the lock; the call then returns
Notify(g) ==
    /\ ~halted
    /\ atPc(g, "notify")
    /\ call' = [noCall EXCEPT !.op = gor[g].op, !.name = gor[g].filename,
                   !.tmpl = gor[g].tmpl, !.err = gor[g].err,
                   !.notified = notifications(rm.callbacks, gor[g].filename,
                                              gor[g].tmpl, gor[g].err)]
    /\ eng' = runCallbacks(rm.callbacks, eng, gor[g].filename, gor[g].tmpl, gor[g].err)
    /\ gor' = [gor EXCEPT ![g] = idleGoroutine]
    /\ heap' = collect(heap, liveIn(fc, cc, rm, eng', call') \cup heldTemplates(gor'))
    /\ UNCHANGED <<ctxs, pool, caller, lastCompile, last, run, thr, fs, fc, cc, rm, tp>>

\* return info.template, nil: the field is read without the lock
Return(g) ==
    /\ ~halted
    /\ atPc(g, "return")
    /\ \E template \in racyTemplate(g, gor[g].filename) :
          call' = [noCall EXCEPT !.op = "GetTemplate", !.name = gor[g].filename,
                                  !.tmpl = template]
    /\ gor' = [gor EXCEPT ![g] = idleGoroutine]
    /\ heap' = collect(heap, liveIn(fc, cc, rm, eng, call') \cup heldTemplates(gor'))
    /\ UNCHANGED <<ctxs, pool, caller, lastCompile, last, run, thr, fs, fc, cc, rm, eng,
                   tp>>

\* rm.AddCallback(callback) by the caller: Lock, append, Unlock
AddCallback(cb) ==
    /\ ~halted
    /\ started
    /\ rm.mu = "free"
    /\ \A k \in DOMAIN rm.callbacks : rm.callbacks[k] # cb
    /\ rm' = [rm EXCEPT !.callbacks = Append(@, cb)]
    /\ UNCHANGED <<heap, ctxs, pool, caller, lastCompile, last, run, thr,
                   fs, fc, cc, eng, tp, call, gor>>

NextRace ==
    \/ \E content \in PageContents : Edit(file_page, content)
    \/ RunReloadServer
    \/ AddCallback(cb_metrics)
    \/ \E g \in Goroutines : Begin(g, file_page)
    \/ \E g \in Goroutines : Stat(g)
    \/ \E g \in Goroutines : Lookup(g)
    \/ \E g \in Goroutines : Compare(g)
    \/ \E g \in Goroutines : CompileStep(g)
    \/ \E g \in Goroutines : LockStep(g)
    \/ \E g \in Goroutines : WriteStep(g)
    \/ \E g \in Goroutines : Notify(g)
    \/ \E g \in Goroutines : Return(g)

SpecRace == InitReload /\ [][NextRace]_vars

\* ------------------------------------------------------------------------
\* C29: the manager's state and rm.mu
\* ------------------------------------------------------------------------

\* the field of the manager that g's next step accesses without holding
\* rm.mu
unlockedAccess(g) ==
    IF atPc(g, "compare") THEN "lastModTime"
    ELSE IF atPc(g, "notify") THEN "callbacks"
    ELSE IF atPc(g, "return") THEN "template"
    ELSE "none"

\* the fields a writer is about to write, or is writing, under rm.mu: a
\* goroutine before or inside the section that updates a watch entry, and
\* the caller while its AddCallback is still to come
pendingWrites ==
    UNION {IF atPc(g, "lock") \/ atPc(g, "write") THEN {<<g, "lastModTime">>, <<g, "template">>}
           ELSE {} : g \in Goroutines}
    \cup (IF started /\ \A k \in DOMAIN rm.callbacks : rm.callbacks[k] # cb_metrics
          THEN {<<"caller", "callbacks">>} ELSE {})

\* C29: every access to a watch entry's lastModTime and template and to the
\* callbacks slice is made under rm.mu, so no goroutine is at an access
\* without the lock, and none is there while another one writes the field
C29_SharedStateUnderLock ==
    /\ \A g \in Goroutines : unlockedAccess(g) = "none"
    /\ \A g \in Goroutines, w \in pendingWrites :
          ~(w[1] # g /\ w[2] = unlockedAccess(g))

\* ------------------------------------------------------------------------
\* Engine.Render with a layout, by concurrent requests
\* ------------------------------------------------------------------------

file_layout == <<"l","a","y","o","u","t",".","h","t","m","l">>
file_a == <<"a",".","h","t","m","l">>
file_b == <<"b",".","h","t","m","l">>
file_foot == <<"_","f","o","o","t",".","h","t","m","l">>

name_layout == <<"l","a","y","o","u","t">>
name_a == <<"a">>
name_b == <<"b">>

\* [{{ include "content" }}{{ include "foot" }}]
src_layout == <<"[","{","{"," ","i","n","c","l","u","d","e"," ","\"","c","o","n","t","e","n","t","\""," ","}","}","{","{"," ","i","n","c","l","u","d","e"," ","\"","f","o","o","t","\""," ","}","}","]">>

\* the goroutines that serve requests
Requests == {"request1", "request2"}

\* a request goroutine outside Engine.Render
idleRender == [pc |-> "idle", tmplName |-> <<>>, layoutName |-> <<>>,
               tmpl |-> 0, layoutTmpl |-> 0, copy |-> 0]

\* the templates the local variables of the running Engine.Render calls
\* reference: tmpl, layoutTmpl and layoutCopy
heldByRender(gv) ==
    UNION {{gv[g].tmpl, gv[g].layoutTmpl, gv[g].copy} : g \in DOMAIN gv \cap Requests}

\* a clone that is the layout itself
cloneLayout_alias(h, l) == [heap |-> h, tmpl |-> l]

\* layoutCopy := &Template{root: layoutTmpl.root, parts: make(map), filt:
\* layoutTmpl.filt}; for k, v := range layoutTmpl.parts { layoutCopy.parts[k]
\* = v }: a new template on heap h with a partial map of its own
cloneLayout(h, l) ==
    [heap |-> allocate(h, [root |-> h[l].root, parts |-> h[l].parts, filt |-> h[l].filt]),
     tmpl |-> newId(h)]

\* e.Render(w, tmplName, data, layout...): the goroutine enters the call;
\* without a layout argument the name is e.defaultLayout
RenderBegin(g, tmplName, layout) ==
    /\ ~halted
    /\ eng # noEngine
    /\ g \notin DOMAIN gor \/ atPc(g, "idle")
    /\ gor' = (g :> [idleRender EXCEPT !.pc = "template", !.tmplName = tmplName,
                        !.layoutName = IF layout # <<>> THEN layout[1]
                                       ELSE eng.defaultLayout])
              @@ gor
    /\ UNCHANGED <<heap, ctxs, pool, caller, lastCompile, last, run, thr,
                   fs, fc, cc, rm, eng, tp, call>>

\* the call of g returns err before any render
renderFails(g, err) ==
    /\ gor' = [gor EXCEPT ![g] = idleRender]
    /\ call' = [noCall EXCEPT !.op = "Engine.Render", !.name = gor[g].tmplName,
                               !.layout = gor[g].layoutName, !.err = err]
    /\ heap' = collect(heap, liveIn(fc, cc, rm, eng, call') \cup heldByRender(gor'))

\* e.mu.RLock(); tmpl, ok := e.templates[tmplName]; e.mu.RUnlock()
LookupTemplate(g) ==
    /\ ~halted
    /\ atPc(g, "template")
    /\ IF gor[g].tmplName \notin DOMAIN eng.templates
       THEN renderFails(g, ErrTemplateNotFound)
       ELSE /\ gor' = [gor EXCEPT ![g].pc = "layout",
                                  ![g].tmpl = eng.templates[gor[g].tmplName]]
            /\ UNCHANGED <<heap, call>>
    /\ UNCHANGED <<ctxs, pool, caller, lastCompile, last, run, thr,
                   fs, fc, cc, rm, eng, tp>>

ErrLayoutNotFound == "layout template not found"

\* if layoutName != "" { e.mu.RLock(); layoutTmpl, ok =
\* e.templates[layoutName]; e.mu.RUnlock() }
LookupLayout(g) ==
    /\ ~halted
    /\ atPc(g, "layout")
    /\ IF gor[g].layoutName = <<>>
       THEN /\ gor' = [gor EXCEPT ![g].pc = "render"]
            /\ UNCHANGED <<heap, call>>
       ELSE IF gor[g].layoutName \notin DOMAIN eng.templates
       THEN renderFails(g, ErrLayoutNotFound)
       ELSE /\ gor' = [gor EXCEPT ![g].pc = "clone",
                                  ![g].layoutTmpl = eng.templates[gor[g].layoutName]]
            /\ UNCHANGED <<heap, call>>
    /\ UNCHANGED <<ctxs, pool, caller, lastCompile, last, run, thr,
                   fs, fc, cc, rm, eng, tp>>

\* the clone of the layout
Clone(g) ==
    /\ ~halted
    /\ atPc(g, "clone")
    /\ \E c \in {cloneLayout(heap, gor[g].layoutTmpl)} :
          /\ gor' = [gor EXCEPT ![g].pc = "register", ![g].copy = c.tmpl]
          /\ heap' = c.heap
    /\ UNCHANGED <<ctxs, pool, caller, lastCompile, last, run, thr,
                   fs, fc, cc, rm, eng, tp, call>>

\* layoutCopy.RegisterPartial("content", tmpl)
Register(g) ==
    /\ ~halted
    /\ atPc(g, "register")
    /\ heap' = [heap EXCEPT ![gor[g].copy].parts = bindLocal(@, name_content, gor[g].tmpl)]
    /\ gor' = [gor EXCEPT ![g].pc = "render"]
    /\ UNCHANGED <<ctxs, pool, caller, lastCompile, last, run, thr,
                   fs, fc, cc, rm, eng, tp, call>>

\* the template the call of g renders: the copy of the layout, or the page
\* when there is no layout
rendered_by(g) == IF gor[g].copy # 0 THEN gor[g].copy ELSE gor[g].tmpl

\* return layoutCopy.Render(w, data), or return tmpl.Render(w, data)
RenderReturn(g) ==
    /\ ~halted
    /\ atPc(g, "render")
    /\ \E id \in poolGet :
          \E o \in renderOf(heap[rendered_by(g)], heap, emptyData, id) :
             /\ renderPut(heap[rendered_by(g)], emptyData, id, o)
             /\ call' = [noCall EXCEPT !.op = "Engine.Render", !.name = gor[g].tmplName,
                                        !.layout = gor[g].layoutName,
                                        !.tmpl = gor[g].tmpl,
                                        !.out = o.out, !.rerr = o.err]
    /\ gor' = [gor EXCEPT ![g] = idleRender]
    /\ heap' = collect(heap, liveIn(fc, cc, rm, eng, call') \cup heldByRender(gor'))
    /\ UNCHANGED <<caller, lastCompile, last, run, thr, fs, fc, cc, rm, eng, tp>>

\* the pages and the layouts the requests ask for
RequestedPages == {name_a, name_b, name_ghost}
RequestedLayouts == {<<>>, <<name_layout>>, <<name_ghost>>}

NextLayout ==
    \/ NewTemplate
    \/ \E g \in Requests, tmplName \in RequestedPages, layout \in RequestedLayouts :
          RenderBegin(g, tmplName, layout)
    \/ \E g \in Requests : LookupTemplate(g)
    \/ \E g \in Requests : LookupLayout(g)
    \/ \E g \in Requests : Clone(g)
    \/ \E g \in Requests : Register(g)
    \/ \E g \in Requests : RenderReturn(g)

\* the directory holds a layout, two pages and the partial foot; nothing is
\* loaded yet
InitLayout ==
    /\ InitCore
    /\ fs = (file_layout :> file(src_layout, 0) @@ file_a :> file(<<"A">>, 0)
             @@ file_b :> file(<<"B">>, 0) @@ file_foot :> file(<<"F">>, 0))
    /\ fc = <<>>
    /\ cc = <<>>
    /\ rm = noReloadManager
    /\ eng = noEngine
    /\ tp = noTemplatePool
    /\ call = noCall
    /\ gor = <<>>

SpecLayout == InitLayout /\ [][NextLayout]_vars

\* ------------------------------------------------------------------------
\* C30: the stored layout under concurrent Engine.Render calls
\* ------------------------------------------------------------------------

\* the text of the two pages
pageText == (name_a :> <<"A">> @@ name_b :> <<"B">>)

\* this step is the return of an Engine.Render call that rendered
renderReturns == \E g \in Requests : atPc(g, "render") /\ gor'[g].pc = "idle"

\* C30: no step of an Engine.Render call changes the partial map of a
\* template stored in the engine, and, whatever the other call does in
\* between, a call for a page under the layout writes the layout with that
\* page at its include of "content"
C30_LayoutNeverMutated ==
    [][eng # noEngine =>
          /\ \A n \in DOMAIN eng.templates :
                /\ eng.templates[n] \in DOMAIN heap'
                /\ heap'[eng.templates[n]].parts = heap[eng.templates[n]].parts
          /\ (renderReturns /\ call'.layout = name_layout /\ call'.name \in DOMAIN pageText)
                => /\ call'.rerr = NoErr
                   /\ call'.out = <<"[">> \o pageText[call'.name] \o <<"F", "]">>]_vars

\* a call for page a under the layout has written [AF] while the other
\* call, for page b under the same layout, has registered b on its copy
\* and is about to render
C30_Witness ==
    /\ call.op = "Engine.Render" /\ call.name = name_a /\ call.layout = name_layout
    /\ call.out = <<"[", "A", "F", "]">>
    /\ \E g \in Requests :
          /\ atPc(g, "render") /\ gor[g].tmplName = name_b
          /\ gor[g].layoutName = name_layout
          /\ name_content \in DOMAIN heap[gor[g].copy].parts
          /\ heap[gor[g].copy].parts[name_content] = gor[g].tmpl
          /\ name_content \notin DOMAIN heap[gor[g].layoutTmpl].parts

====
